---- MODULE Spec2Model ----
(***************************************************************************)
(* PDF annotation editor: the working element set, the undo/redo history   *)
(* with its deferred checkpoints, the pointer gestures of the canvas       *)
(* overlay and the in-place text editor.                                   *)
(*                                                                         *)
(* React state is modelled as committed between two events: a handler      *)
(* reads the state of the last render, and a callback scheduled with       *)
(* setTimeout keeps the values its closure captured when it was scheduled. *)
(*                                                                         *)
(* The exporter (PDFExporter) is modelled by the draw commands it issues   *)
(* on the page; its numbers are exact rationals.                           *)
(***************************************************************************)
EXTENDS Integers, Sequences, FiniteSets, TLC

(***************************************************************************)
(* Bounds of the model.                                                    *)
(***************************************************************************)
MaxElems == 2          \* elements in the working set
MaxHist == 3           \* snapshots in the history
MaxPending == 2        \* checkpoint callbacks scheduled and not yet run
MaxElapsed == 300      \* milliseconds the clock advances over a run
MaxSteps == 10         \* events of a run
MaxHistorySteps == 12  \* events of a run of SpecHistory
MaxPoints == 2         \* points of an element being drawn
MaxPages == 2          \* pages of a document
MaxExports == 2        \* export calls in flight
MaxLoading == 2        \* document loads in flight
MaxExportSteps == 8    \* events of a run of SpecExport
MaxDrawSteps == 6      \* events of a run of SpecDraw
MaxColorSteps == 4     \* events of a run of SpecColor
MaxLoadSteps == 7      \* events of a run of SpecLoad
MaxTextSteps == 8      \* events of a run of SpecText
MaxEraseSteps == 7     \* events of a run of SpecErase
MaxHeapSteps == 8      \* events of a run of SpecHeap

(***************************************************************************)
(* Values of the environment and constants of the program.                 *)
(***************************************************************************)
StartTime == 1000      \* Date.now() at the first event
CanvasLeft == 100      \* canvas.getBoundingClientRect().left
CanvasTop == 50        \* canvas.getBoundingClientRect().top
CanvasWidth == 100     \* canvas.width: the canvas ends where the viewport x is 200
DefaultFontSize == 16
DoubleClickMs == 300
DefaultStrokeWidth == 2 \* useState(2): element.strokeWidth of every element
DefaultHighlightHeight == 20
ArrowHeadLength == 15
NoId == -1             \* lastClickElementRef.current = null

Pt(x, y) == [x |-> x, y |-> y]

\* canvas positions of the pointer events
Points == {Pt(5, 20), Pt(10, 25)}
\* clock advance between two pointer-downs
Delays == {0, 300}
\* tools the user selects
Tools == {"select", "text", "rectangle"}
ShapeTools == {"draw", "rectangle", "circle", "arrow", "highlight"}
\* contents typed into the editor (sequences of characters)
TextInputs == {<<>>, <<" ">>, <<"a", " ">>}
\* sizes picked in the size dropdown of the editor (two of FONT_SIZES)
EditorFontSizes == {16, 24}
\* height of the pages of the documents, in page units
PageHeight == 200

VARIABLES
  elements,          \* useState<DrawingElement[]>
  history,           \* useState<HistoryState[]>, each entry the elements of a snapshot
  historyIndex,      \* useState(-1)
  pending,           \* setTimeout(..., 0) callbacks not yet run, in scheduling order
  activeTool,        \* useState<ToolType>('select')
  now,               \* last reading of Date.now()
  lastClickTime,     \* lastClickTimeRef
  lastClickElement,  \* lastClickElementRef
  isDrawing,         \* isDrawingRef
  startPoint,        \* startPointRef
  currentElement,    \* currentElementRef, <<>> for null, <<el>> otherwise
  editors,           \* local state of the mounted InPlaceTextEditor components, by key
  pdfFile,           \* useState<File | null>: <<>> for null, <<file>> otherwise
  currentPage,       \* useState(1)
  totalPages,        \* useState(0), set by handleDocumentLoadSuccess
  scale,             \* useState(1.0), a rational
  loading,           \* loadPdf calls of PDFViewer in flight, each the file it reads
  pdfDocument,       \* PDFViewer useState(null): <<>> for null, <<document>> otherwise
  isLoading,         \* PDFViewer useState(false)
  exports,           \* mergePDFWithAnnotations calls in flight, each its arguments
  saved,             \* what saveAs has received, in order
  alerts,            \* number of alert(...) dialogs shown
  heap,              \* the objects of the element set, the snapshots and the refs, by address
  steps              \* number of events handled so far

histVars == <<history, historyIndex>>
clickVars == <<now, lastClickTime, lastClickElement>>
gestureVars == <<isDrawing, startPoint, currentElement>>
viewerVars == <<pdfDocument, isLoading>>
viewVars == <<pdfFile, currentPage, totalPages, scale, loading, viewerVars>>
outVars == <<exports, saved, alerts>>
exportVars == <<viewVars, outVars>>
editVars == <<elements, history, historyIndex, pending, activeTool, now,
              lastClickTime, lastClickElement, isDrawing, startPoint,
              currentElement, editors>>
vars == <<elements, history, historyIndex, pending, activeTool, now,
          lastClickTime, lastClickElement, isDrawing, startPoint,
          currentElement, editors, pdfFile, currentPage, totalPages, scale,
          loading, pdfDocument, isLoading, exports, saved, alerts, heap,
          steps>>

(***************************************************************************)
(* Elements.  An absent optional field is its falsy value: text <<>>,      *)
(* fontSize 0, isEditing FALSE, textFormat with fontSize 0.                *)
(***************************************************************************)
NoFormat == [fontSize |-> 0]

ShapeElement(id, tool, pts) ==
  [id |-> id, type |-> tool, points |-> pts, text |-> <<>>, fontSize |-> 0,
   isEditing |-> FALSE, textFormat |-> NoFormat]

\* a new text element that is not put into edit mode
NewTextElementCommitted(id, viewportPoint, fs) ==
  [id |-> id, type |-> "text", points |-> <<viewportPoint>>, text |-> <<>>,
   fontSize |-> fs, isEditing |-> FALSE, textFormat |-> [fontSize |-> fs]]

NewTextElement(id, viewportPoint, fs) ==
  [id |-> id, type |-> "text", points |-> <<viewportPoint>>, text |-> <<>>,
   fontSize |-> fs, isEditing |-> TRUE, textFormat |-> [fontSize |-> fs]]

\* a || b || c on numbers
Or3(a, b, c) == IF a # 0 THEN a ELSE IF b # 0 THEN b ELSE c

IsEditingText(el) == el.type = "text" /\ el.isEditing

IsSpace(c) == c \in {" ", "\n", "\t"}

RECURSIVE TrimStart(_)
TrimStart(s) ==
  IF s = <<>> THEN <<>>
  ELSE IF IsSpace(Head(s)) THEN TrimStart(Tail(s)) ELSE s

RECURSIVE TrimEnd(_)
TrimEnd(s) ==
  IF s = <<>> THEN <<>>
  ELSE IF IsSpace(s[Len(s)]) THEN TrimEnd(SubSeq(s, 1, Len(s) - 1)) ELSE s

\* String.prototype.trim
Trim(s) == TrimEnd(TrimStart(s))

\* text.split('\n')
RECURSIVE SplitLines(_, _)
SplitLines(s, cur) ==
  IF s = <<>> THEN <<cur>>
  ELSE IF Head(s) = "\n" THEN <<cur>> \o SplitLines(Tail(s), <<>>)
  ELSE SplitLines(Tail(s), Append(cur, Head(s)))

\* ctx.measureText(line).width of the 2D context: half the font size per character
MeasureText(line, fs) == Len(line) * (fs \div 2)

(***************************************************************************)
(* History: the checkpoint callback, undo and redo.                        *)
(***************************************************************************)
\* history.slice(0, historyIndex + 1) followed by push
SliceAndPush(hist, idx, snap) == Append(SubSeq(hist, 1, idx + 1), snap)

\* the callback handleElementAdd and handleTextConfirm pass to setTimeout
Checkpoint(hist, idx, snap) == [hist |-> hist, idx |-> idx, snap |-> snap]

canUndo == historyIndex > 0
canRedo == historyIndex < Len(history) - 1

\* handleUndo reading the snapshot at the old cursor
UndoResultStale(els, hist, idx) ==
  IF idx > 0
    THEN [elements |-> hist[idx + 1].elements, historyIndex |-> idx - 1]
    ELSE [elements |-> els, historyIndex |-> idx]

\* an undo that goes back to the first snapshot
UndoResultToStart(els, hist, idx) ==
  IF idx > 0
    THEN [elements |-> hist[1].elements, historyIndex |-> 0]
    ELSE [elements |-> els, historyIndex |-> idx]

\* the state handleUndo leaves, as a function of the state it reads
UndoResult(els, hist, idx) ==
  IF idx > 0
    THEN [elements |-> hist[idx].elements, historyIndex |-> idx - 1]
    ELSE [elements |-> els, historyIndex |-> idx]

\* handleRedo moving the cursor without restoring the snapshot
RedoResultCursorOnly(els, hist, idx) ==
  IF idx < Len(hist) - 1
    THEN [elements |-> els, historyIndex |-> idx + 1]
    ELSE [elements |-> els, historyIndex |-> idx]

\* the state handleRedo leaves
RedoResult(els, hist, idx) ==
  IF idx < Len(hist) - 1
    THEN [elements |-> hist[idx + 2].elements, historyIndex |-> idx + 1]
    ELSE [elements |-> els, historyIndex |-> idx]

(***************************************************************************)
(* The editors React keeps mounted: one per key (element id) of the        *)
(* editing text elements; a component that stays mounted keeps its state.  *)
(***************************************************************************)
EditingIds(els) == {els[i].id : i \in {j \in 1..Len(els) : IsEditingText(els[j])}}

FirstEditing(els, id) ==
  els[CHOOSE i \in 1..Len(els) :
        /\ IsEditingText(els[i]) /\ els[i].id = id
        /\ \A j \in 1..(i - 1) : ~(IsEditingText(els[j]) /\ els[j].id = id)]

EditorInit(el) ==
  [text |-> el.text,
   fontSize |-> Or3(el.textFormat.fontSize, el.fontSize, DefaultFontSize)]

Remount(eds, els) ==
  [id \in EditingIds(els) |->
     IF id \in DOMAIN eds THEN eds[id] ELSE EditorInit(FirstEditing(els, id))]

(***************************************************************************)
(* The setters of the element set (PDFEditor).                             *)
(***************************************************************************)
MapElements(els, F(_)) == [i \in 1..Len(els) |-> F(els[i])]

\* handleElementAdd: the new set, and the checkpoint it schedules, which
\* closes over the history and the cursor of the render that made the handler
handleElementAdd(els, el) == Append(els, el)

\* handleElementUpdate with the partial { isEditing, points }
handleElementUpdate(els, id, isEd, pts) ==
  LET F(el) == IF el.id = id
                 THEN [el EXCEPT !.isEditing = isEd, !.points = pts]
                 ELSE el
  IN MapElements(els, F)

\* handleElementDelete and handleTextCancel: prev.filter(el => el.id !== id)
FilterOutId(els, id) ==
  LET Keep(el) == el.id # id IN SelectSeq(els, Keep)

handleElementDelete(els, id) == FilterOutId(els, id)

handleTextCancel(els, id) == FilterOutId(els, id)

\* handleTextChange
handleTextChange(els, id, text) ==
  LET F(el) == IF el.id = id THEN [el EXCEPT !.text = text] ELSE el
  IN MapElements(els, F)

\* the viewport -> canvas re-basing of handleTextConfirm
ToCanvasPoint(p, fs) ==
  Pt(p.x - CanvasLeft + 2, p.y - CanvasTop + 2 + fs)

\* the canvas -> viewport re-basing of handleMouseDown
ToViewportPoint(p, fs) == Pt(p.x + CanvasLeft, p.y + CanvasTop - fs)

\* the element map of handleTextConfirm (the same in the setter and in the
\* deferred checkpoint)
ConfirmMap(els, id, text, format) ==
  LET F(el) ==
        IF el.id = id
          THEN LET fs == Or3(format.fontSize, el.fontSize, DefaultFontSize)
                   canvasPoints ==
                     IF el.isEditing
                       THEN [i \in 1..Len(el.points) |-> ToCanvasPoint(el.points[i], fs)]
                       ELSE el.points
               IN [el EXCEPT !.text = text, !.textFormat = format,
                             !.isEditing = FALSE, !.points = canvasPoints]
          ELSE el
  IN MapElements(els, F)

(***************************************************************************)
(* Hit test of the committed text elements (CanvasDrawing).  Vertical      *)
(* positions are compared in tenths of a pixel: lineHeight = 1.2*fontSize. *)
(***************************************************************************)
LineHit(el, point, lineIndex, line) ==
  LET fs == Or3(el.fontSize, DefaultFontSize, DefaultFontSize)
      lineY10 == 10 * el.points[1].y + (lineIndex - 1) * 12 * fs
  IN /\ point.x >= el.points[1].x - 2
     /\ point.x <= el.points[1].x + MeasureText(line, fs) + 2
     /\ 10 * point.y >= lineY10 - 10 * fs - 20
     /\ 10 * point.y <= lineY10 + 40

ElementHit(el, point) ==
  /\ el.type = "text" /\ el.text # <<>> /\ ~el.isEditing
  /\ LET lines == SplitLines(el.text, <<>>)
     IN \E k \in 1..Len(lines) : LineHit(el, point, k, lines[k])

\* index of the element found, 0 for null; the last element of the set wins
getTextElementAtPoint(els, point) ==
  LET hits == {i \in 1..Len(els) : ElementHit(els[i], point)}
  IN IF hits = {} THEN 0 ELSE CHOOSE i \in hits : \A j \in hits : j <= i

ExistingEditing(els) == \E i \in 1..Len(els) : IsEditingText(els[i])

(***************************************************************************)
(* handleMouseDown: the refs and the element set it leaves, and the        *)
(* checkpoints scheduled, for a pointer-down at the canvas position point  *)
(* read at the clock value currentTime.                                    *)
(***************************************************************************)
\* entering edit mode as handleElementEdit does: the flag without the re-basing
EnterEditFlagOnly(els, i) ==
  handleElementUpdate(els, els[i].id, TRUE, els[i].points)

EnterEdit(els, i) ==
  LET el == els[i]
      fs == Or3(el.textFormat.fontSize, el.fontSize, DefaultFontSize)
  IN handleElementUpdate(els, el.id, TRUE, <<ToViewportPoint(el.points[1], fs)>>)

MouseDownBase ==
  [elements |-> elements, pending |-> pending,
   lastClickTime |-> lastClickTime, lastClickElement |-> lastClickElement,
   isDrawing |-> isDrawing, startPoint |-> startPoint,
   currentElement |-> currentElement]

\* handleMouseDown entering edit mode on any click that follows a click on
\* the same element, however long ago
MouseDownResultNoWindow(point, currentTime) ==
  LET s == MouseDownBase
      hit == getTextElementAtPoint(elements, point)
      viewportPoint == Pt(point.x + CanvasLeft, point.y + CanvasTop)
      tracked == [s EXCEPT !.lastClickTime = currentTime, !.lastClickElement = NoId]
      drawing == [tracked EXCEPT !.isDrawing = TRUE, !.startPoint = <<point>>]
  IN IF hit # 0 /\ activeTool = "select"
       THEN IF lastClickElement = elements[hit].id
              THEN IF ExistingEditing(elements)
                     THEN s
                     ELSE [s EXCEPT !.elements = EnterEdit(elements, hit),
                                    !.lastClickTime = 0,
                                    !.lastClickElement = NoId]
              ELSE [s EXCEPT !.lastClickTime = currentTime,
                             !.lastClickElement = elements[hit].id]
     ELSE IF activeTool = "select" THEN tracked
     ELSE IF activeTool = "text"
       THEN IF ExistingEditing(elements) THEN drawing
            ELSE IF hit # 0
              THEN [drawing EXCEPT !.elements = EnterEdit(elements, hit)]
              ELSE LET newElement == NewTextElement(currentTime, viewportPoint,
                                                    DefaultFontSize)
                       newElements == handleElementAdd(elements, newElement)
                   IN [drawing EXCEPT
                         !.elements = newElements,
                         !.pending = Append(pending,
                            Checkpoint(history, historyIndex, newElements))]
     ELSE [drawing EXCEPT
             !.currentElement = <<ShapeElement(currentTime, activeTool, <<point>>)>>]

MouseDownResult(point, currentTime) ==
  LET s == MouseDownBase
      hit == getTextElementAtPoint(elements, point)
      viewportPoint == Pt(point.x + CanvasLeft, point.y + CanvasTop)
      tracked == [s EXCEPT !.lastClickTime = currentTime, !.lastClickElement = NoId]
      drawing == [tracked EXCEPT !.isDrawing = TRUE, !.startPoint = <<point>>]
  IN IF hit # 0 /\ activeTool = "select"
       THEN IF currentTime - lastClickTime < DoubleClickMs
               /\ lastClickElement = elements[hit].id
              THEN IF ExistingEditing(elements)
                     THEN s
                     ELSE [s EXCEPT !.elements = EnterEdit(elements, hit),
                                    !.lastClickTime = 0,
                                    !.lastClickElement = NoId]
              ELSE [s EXCEPT !.lastClickTime = currentTime,
                             !.lastClickElement = elements[hit].id]
     ELSE IF activeTool = "select" THEN tracked
     ELSE IF activeTool = "text"
       THEN IF ExistingEditing(elements) THEN drawing
            ELSE IF hit # 0
              THEN [drawing EXCEPT !.elements = EnterEdit(elements, hit)]
              ELSE LET newElement == NewTextElement(currentTime, viewportPoint,
                                                    DefaultFontSize)
                       newElements == handleElementAdd(elements, newElement)
                   IN [drawing EXCEPT
                         !.elements = newElements,
                         !.pending = Append(pending,
                            Checkpoint(history, historyIndex, newElements))]
     ELSE [drawing EXCEPT
             !.currentElement = <<ShapeElement(currentTime, activeTool, <<point>>)>>]

\* the bounds of the model on a step that leaves the set els and the queue pend
WithinBounds(els, pend) ==
  /\ Len(els) <= MaxElems
  /\ Len(pend) <= MaxPending
  /\ pend # pending => historyIndex + 2 <= MaxHist

\* one more event of a run of at most max events
StepCount(max) == steps < max /\ steps' = steps + 1 /\ UNCHANGED heap

\* an event of the annotation layer: the document, the view and the exports
\* are left alone
Tick(max) == StepCount(max) /\ UNCHANGED exportVars

(***************************************************************************)
(* Numbers of the exporter: exact rationals [n, d] in lowest terms, d > 0. *)
(***************************************************************************)
Abs(n) == IF n < 0 THEN -n ELSE n

RECURSIVE GCD(_, _)
GCD(a, b) == IF b = 0 THEN a ELSE GCD(b, a % b)

Q(n, d) ==
  LET g == GCD(Abs(n), Abs(d))
      sgn == IF d < 0 THEN -1 ELSE 1
  IN [n |-> (sgn * n) \div g, d |-> (sgn * d) \div g]

QInt(n) == Q(n, 1)
QAdd(a, b) == Q(a.n * b.d + b.n * a.d, a.d * b.d)
QSub(a, b) == Q(a.n * b.d - b.n * a.d, a.d * b.d)
QMul(a, b) == Q(a.n * b.n, a.d * b.d)
QDiv(a, b) == Q(a.n * b.d, a.d * b.n)
QLess(a, b) == a.n * b.d < b.n * a.d
QAbs(a) == [n |-> Abs(a.n), d |-> a.d]
QMin(a, b) == IF QLess(b, a) THEN b ELSE a
QMax(a, b) == IF QLess(a, b) THEN b ELSE a

\* the largest r in lo..hi with r * r <= n, by bisection
RECURSIVE SqrtBetween(_, _, _)
SqrtBetween(n, lo, hi) ==
  IF lo >= hi THEN lo
  ELSE LET mid == (lo + hi + 1) \div 2
       IN IF mid <= n \div mid THEN SqrtBetween(n, mid, hi)
          ELSE SqrtBetween(n, lo, mid - 1)

ISqrt(n) == SqrtBetween(n, 0, n)

\* Math.sqrt, exact on the squares of rationals (the only arguments the
\* model gives it)
QSqrt(a) == Q(ISqrt(a.n * a.d), a.d)

RemoveAt(s, i) == SubSeq(s, 1, i - 1) \o SubSeq(s, i + 1, Len(s))

(***************************************************************************)
(* PDFExporter: the draw commands issued on the page.  A rotation is kept  *)
(* as the vector (dx, dy) whose atan2 it is, plus a turn in degrees.       *)
(***************************************************************************)
\* a document: its number of pages and the height of its pages
File(numPages, height) == [numPages |-> numPages, height |-> height]

\* element.strokeWidth: the stroke width setting, which no event changes
StrokeWidth(el) == DefaultStrokeWidth

convertCoords(p, sc, pageHeight) ==
  [x |-> QDiv(QInt(p.x), sc),
   y |-> QSub(QInt(pageHeight), QDiv(QInt(p.y), sc))]

Angle(dx, dy, turn) == [dx |-> dx, dy |-> dy, turn |-> turn]

\* the rectangle that stands for the line from start to end
LineCommands(start, end, sw) ==
  LET dx == QSub(end.x, start.x)
      dy == QSub(end.y, start.y)
      length == QSqrt(QAdd(QMul(dx, dx), QMul(dy, dy)))
  IN IF QLess(QInt(0), length)
       THEN <<[op |-> "drawRectangle", x |-> start.x,
               y |-> QSub(start.y, QDiv(sw, QInt(2))),
               width |-> length, height |-> sw,
               rotate |-> Angle(dx, dy, 0)]>>
       ELSE <<>>

\* the two strokes of the arrow head: the shaft direction turned by 180 -+ 30
\* degrees, of length headLength
HeadCommands(start, end, sw, headLength) ==
  LET dx == QSub(end.x, start.x)
      dy == QSub(end.y, start.y)
  IN <<[op |-> "drawRectangle", x |-> end.x, y |-> end.y,
        width |-> headLength, height |-> sw, rotate |-> Angle(dx, dy, 150)],
       [op |-> "drawRectangle", x |-> end.x, y |-> end.y,
        width |-> headLength, height |-> sw, rotate |-> Angle(dx, dy, 210)]>>

RECURSIVE SegmentCommands(_, _, _, _, _)
SegmentCommands(pts, i, sc, pageHeight, sw) ==
  IF i >= Len(pts) THEN <<>>
  ELSE LineCommands(convertCoords(pts[i], sc, pageHeight),
                    convertCoords(pts[i + 1], sc, pageHeight), sw)
       \o SegmentCommands(pts, i + 1, sc, pageHeight, sw)

\* the stroke width and the corners of an element on the page
PageStroke(el, sc) == QDiv(QInt(StrokeWidth(el)), sc)
PageStart(el, sc, pageHeight) == convertCoords(el.points[1], sc, pageHeight)
PageEnd(el, sc, pageHeight) ==
  convertCoords(el.points[Len(el.points)], sc, pageHeight)

\* case 'text' handing the font size over without dividing it by the scale
TextCommandsCanvasSize(el, sc, pageHeight) ==
  IF el.text # <<>> /\ Len(el.points) > 0
    THEN LET coords == PageStart(el, sc, pageHeight)
         IN <<[op |-> "drawText", text |-> el.text,
               x |-> coords.x, y |-> coords.y,
               size |-> QInt(Or3(el.fontSize, DefaultFontSize,
                                 DefaultFontSize))]>>
    ELSE <<>>

\* case 'text'
TextCommands(el, sc, pageHeight) ==
  IF el.text # <<>> /\ Len(el.points) > 0
    THEN LET coords == PageStart(el, sc, pageHeight)
         IN <<[op |-> "drawText", text |-> el.text,
               x |-> coords.x, y |-> coords.y,
               size |-> QDiv(QInt(Or3(el.fontSize, DefaultFontSize,
                                      DefaultFontSize)), sc)]>>
    ELSE <<>>

\* case 'rectangle' anchored at the first corner, whatever the drag direction
RectangleCommandsFromStart(el, sc, pageHeight) ==
  IF Len(el.points) >= 2
    THEN LET start == PageStart(el, sc, pageHeight)
             end == PageEnd(el, sc, pageHeight)
         IN <<[op |-> "drawRectangle", x |-> start.x, y |-> start.y,
               width |-> QAbs(QSub(end.x, start.x)),
               height |-> QAbs(QSub(end.y, start.y)),
               borderWidth |-> PageStroke(el, sc)]>>
    ELSE <<>>

\* case 'rectangle'
RectangleCommands(el, sc, pageHeight) ==
  IF Len(el.points) >= 2
    THEN LET start == PageStart(el, sc, pageHeight)
             end == PageEnd(el, sc, pageHeight)
         IN <<[op |-> "drawRectangle",
               x |-> QMin(start.x, end.x), y |-> QMin(start.y, end.y),
               width |-> QAbs(QSub(end.x, start.x)),
               height |-> QAbs(QSub(end.y, start.y)),
               borderWidth |-> PageStroke(el, sc)]>>
    ELSE <<>>

\* case 'circle'
CircleCommands(el, sc, pageHeight) ==
  IF Len(el.points) >= 2
    THEN LET start == PageStart(el, sc, pageHeight)
             end == PageEnd(el, sc, pageHeight)
             dx == QSub(end.x, start.x)
             dy == QSub(end.y, start.y)
             radius == QDiv(QSqrt(QAdd(QMul(dx, dx), QMul(dy, dy))), sc)
         IN <<[op |-> "drawCircle", x |-> start.x, y |-> start.y,
               size |-> QMul(radius, QInt(2)),
               borderWidth |-> PageStroke(el, sc)]>>
    ELSE <<>>

\* case 'highlight'
HighlightCommands(el, sc, pageHeight) ==
  IF Len(el.points) >= 2
    THEN LET start == PageStart(el, sc, pageHeight)
             end == PageEnd(el, sc, pageHeight)
             dy == QAbs(QSub(end.y, start.y))
         IN <<[op |-> "drawRectangle",
               x |-> QMin(start.x, end.x), y |-> QMin(start.y, end.y),
               width |-> QAbs(QSub(end.x, start.x)),
               height |-> IF dy # QInt(0) THEN dy
                          ELSE QDiv(QInt(DefaultHighlightHeight), sc),
               opacity |-> Q(3, 10)]>>
    ELSE <<>>

\* drawElement of the canvas, case 'highlight': the arguments of fillRect
CanvasHighlightBox(el) ==
  LET start == el.points[1]
      end == el.points[Len(el.points)]
      dy == end.y - start.y
  IN [x |-> start.x, y |-> start.y, width |-> end.x - start.x,
      height |-> IF dy # 0 THEN dy ELSE DefaultHighlightHeight]

\* case 'draw'
DrawCommands(el, sc, pageHeight) ==
  IF Len(el.points) > 1
    THEN SegmentCommands(el.points, 1, sc, pageHeight, PageStroke(el, sc))
    ELSE <<>>

\* case 'arrow'
ArrowCommands(el, sc, pageHeight) ==
  IF Len(el.points) >= 2
    THEN LET start == PageStart(el, sc, pageHeight)
             end == PageEnd(el, sc, pageHeight)
             shaft == LineCommands(start, end, PageStroke(el, sc))
         IN IF shaft # <<>>
              THEN shaft \o HeadCommands(start, end, PageStroke(el, sc),
                                         QDiv(QInt(ArrowHeadLength), sc))
              ELSE <<>>
    ELSE <<>>

(***************************************************************************)
(* Colours.  A colour string is a sequence of characters.  A JavaScript    *)
(* number that may be NaN is a record: nan tells whether it is NaN, q is   *)
(* its value otherwise.                                                    *)
(***************************************************************************)
Number(q) == [nan |-> FALSE, q |-> q]
NaN == [nan |-> TRUE, q |-> QInt(0)]

\* the initial strokeColor of the editor, '#ff0000'
DefaultColor == <<"#", "f", "f", "0", "0", "0", "0">>

\* element.color: the stroke colour when the element was made.  An element
\* made by the canvas carries the colour setting, which no event changes; an
\* element handed over with a colour of its own records it in the field color
ElementColor(el) == IF "color" \in DOMAIN el THEN el.color ELSE DefaultColor

LowerHex == <<"0", "1", "2", "3", "4", "5", "6", "7", "8", "9",
              "a", "b", "c", "d", "e", "f">>
UpperHex == <<"0", "1", "2", "3", "4", "5", "6", "7", "8", "9",
              "A", "B", "C", "D", "E", "F">>

IsHexDigit(c) == \E i \in 1..16 : LowerHex[i] = c \/ UpperHex[i] = c

HexValue(c) == (CHOOSE i \in 1..16 : LowerHex[i] = c \/ UpperHex[i] = c) - 1

\* String.prototype.slice(from, to) with 0 <= from <= to
Slice(s, from, to) ==
  IF from >= Len(s) THEN <<>>
  ELSE SubSeq(s, from + 1, IF to < Len(s) THEN to ELSE Len(s))

\* the value of the longest prefix of s made of hex digits, from acc
RECURSIVE HexPrefixValue(_, _)
HexPrefixValue(s, acc) ==
  IF s = <<>> \/ ~IsHexDigit(Head(s)) THEN acc
  ELSE HexPrefixValue(Tail(s), 16 * acc + HexValue(Head(s)))

\* parseInt(s, 16): leading white space, a sign and a 0x prefix are skipped,
\* then the longest prefix of hex digits is read; NaN when there is none
ParseInt16(s) ==
  LET t == TrimStart(s)
      signed == t # <<>> /\ Head(t) \in {"+", "-"}
      u == IF signed THEN Tail(t) ELSE t
      v == IF Len(u) >= 2 /\ u[1] = "0" /\ u[2] \in {"x", "X"}
             THEN SubSeq(u, 3, Len(u)) ELSE u
      value == HexPrefixValue(v, 0)
  IN IF v = <<>> \/ ~IsHexDigit(Head(v)) THEN NaN
     ELSE Number(QInt(IF signed /\ Head(t) = "-" THEN 0 - value ELSE value))

\* parseInt(hex.slice(from, to), 16) / 255
Channel(hex, from, to) ==
  LET n == ParseInt16(Slice(hex, from, to))
  IN IF n.nan THEN NaN ELSE Number(QDiv(n.q, QInt(255)))

Red == [r |-> Number(QInt(1)), g |-> Number(QInt(0)), b |-> Number(QInt(0))]

\* parseColor falling back to red for a string without a leading '#' only:
\* the channels of a string with one are read without any check
parseColor(colorStr) ==
  IF colorStr # <<>> /\ Head(colorStr) = "#"
    THEN LET hex == Tail(colorStr)
         IN [r |-> Channel(hex, 0, 2), g |-> Channel(hex, 2, 4),
             b |-> Channel(hex, 4, 6)]
    ELSE Red

\* the colour handed to rgb() in every command drawn for the element
Painted(cmds, color) ==
  [i \in 1..Len(cmds) |-> cmds[i] @@ [rgb |-> color]]

drawElementOnPDF(el, sc, pageHeight) ==
  LET color == parseColor(ElementColor(el))
      cmds ==
        CASE el.type = "text" -> TextCommands(el, sc, pageHeight)
          [] el.type = "rectangle" -> RectangleCommands(el, sc, pageHeight)
          [] el.type = "circle" -> CircleCommands(el, sc, pageHeight)
          [] el.type = "highlight" -> HighlightCommands(el, sc, pageHeight)
          [] el.type = "draw" -> DrawCommands(el, sc, pageHeight)
          [] el.type = "arrow" -> ArrowCommands(el, sc, pageHeight)
          [] OTHER -> <<>>
  IN Painted(cmds, color)

RECURSIVE DrawAll(_, _, _)
DrawAll(els, sc, pageHeight) ==
  IF els = <<>> THEN <<>>
  ELSE drawElementOnPDF(Head(els), sc, pageHeight)
       \o DrawAll(Tail(els), sc, pageHeight)

\* mergePDFWithAnnotations drawing without looking whether the page exists
mergePDFWithAnnotationsAnyPage(file, els, pageNumber, sc) ==
  [ok |-> TRUE, commands |-> DrawAll(els, sc, file.height)]

\* mergePDFWithAnnotations: the error of a missing page, or the commands
\* drawn on the page before the document is serialized
mergePDFWithAnnotations(file, els, pageNumber, sc) ==
  IF pageNumber \notin 1..file.numPages
    THEN [ok |-> FALSE, commands |-> <<>>]
    ELSE [ok |-> TRUE, commands |-> DrawAll(els, sc, file.height)]

(***************************************************************************)
(* Initial state and the events.  The editor starts with a document       *)
(* loaded and its first page displayed, the state in which the canvas of   *)
(* the annotation layer exists.                                            *)
(***************************************************************************)
\* the documents the user opens
Files == {File(n, PageHeight) : n \in 1..MaxPages}

InitialFile == File(MaxPages, PageHeight)

\* a file whose bytes hold no PDF document: no page can be read from it
CorruptFile == File(0, PageHeight)

\* the object store before the first event: no object, the initial state and refs
EmptyHeap ==
  [objects |-> <<>>, elements |-> <<>>, history |-> <<>>, historyIndex |-> -1,
   pending |-> <<>>, activeTool |-> "select", now |-> StartTime,
   lastClickTime |-> 0, lastClickElement |-> NoId,
   isDrawing |-> FALSE, startPoint |-> <<>>, currentElementRef |-> 0]

Init ==
  /\ elements = <<>>
  /\ history = <<>>
  /\ historyIndex = -1
  /\ pending = <<>>
  /\ activeTool = "select"
  /\ now = StartTime
  /\ lastClickTime = 0
  /\ lastClickElement = NoId
  /\ isDrawing = FALSE
  /\ startPoint = <<>>
  /\ currentElement = <<>>
  /\ editors = <<>>
  /\ pdfFile = <<InitialFile>>
  /\ currentPage = 1
  /\ totalPages = InitialFile.numPages
  /\ scale = QInt(1)
  /\ loading = <<>>
  /\ pdfDocument = pdfFile
  /\ isLoading = FALSE
  /\ exports = <<>>
  /\ saved = <<>>
  /\ alerts = 0
  /\ heap = EmptyHeap
  /\ steps = 0

\* Toolbar: onToolChange
SetTool ==
  \E t \in Tools :
    /\ t # activeTool
    /\ activeTool' = t
    /\ UNCHANGED <<elements, histVars, pending, clickVars, gestureVars, editors>>

\* mousedown on the canvas with a tool other than the eraser
MouseDown ==
  \E point \in Points, dt \in Delays :
    LET currentTime == now + dt
        r == MouseDownResult(point, currentTime)
    IN /\ activeTool # "eraser"
       /\ currentTime <= StartTime + MaxElapsed
       /\ WithinBounds(r.elements, r.pending)
       /\ now' = currentTime
       /\ elements' = r.elements
       /\ pending' = r.pending
       /\ lastClickTime' = r.lastClickTime
       /\ lastClickElement' = r.lastClickElement
       /\ isDrawing' = r.isDrawing
       /\ startPoint' = r.startPoint
       /\ currentElement' = r.currentElement
       /\ editors' = Remount(editors, r.elements)
       /\ UNCHANGED <<histVars, activeTool>>

\* Toolbar: onToolChange to the eraser
SetEraser ==
  /\ activeTool # "eraser"
  /\ activeTool' = "eraser"
  /\ UNCHANGED <<elements, histVars, pending, clickVars, gestureVars, editors>>

\* mousedown on the canvas with the eraser, or mousemove with the eraser and
\* the button held: handleEraser clears pixels of the canvas and writes to no
\* state and to no ref
Erase ==
  /\ activeTool = "eraser"
  /\ UNCHANGED editVars

\* mousemove on the canvas with the eraser and no button held: handleMouseMove
EraserHover ==
  \E point \in Points :
    /\ activeTool = "eraser"
    /\ isDrawing /\ currentElement # <<>>
    /\ LET cur == currentElement[1]
           pts == <<startPoint[1], point>>
       IN /\ pts # cur.points
          /\ currentElement' = <<[cur EXCEPT !.points = pts]>>
    /\ UNCHANGED <<elements, histVars, pending, activeTool, clickVars,
                   isDrawing, startPoint, editors>>

\* mousemove on the canvas: handleMouseMove
MouseMove ==
  \E point \in Points :
    /\ activeTool # "eraser"
    /\ isDrawing /\ currentElement # <<>> /\ activeTool # "select"
    /\ LET cur == currentElement[1]
           pts == IF activeTool = "draw"
                    THEN Append(cur.points, point)
                    ELSE <<startPoint[1], point>>
       IN /\ Len(pts) <= MaxPoints
          /\ pts # cur.points
          /\ currentElement' = <<[cur EXCEPT !.points = pts]>>
    /\ UNCHANGED <<elements, histVars, pending, activeTool, clickVars,
                   isDrawing, startPoint, editors>>

\* mouseup on the canvas: handleMouseUp
MouseUp ==
  /\ isDrawing /\ currentElement # <<>>
  /\ LET newElements == handleElementAdd(elements, currentElement[1])
         newPending == Append(pending, Checkpoint(history, historyIndex, newElements))
     IN /\ WithinBounds(newElements, newPending)
        /\ elements' = newElements
        /\ pending' = newPending
        /\ editors' = Remount(editors, newElements)
  /\ currentElement' = <<>>
  /\ isDrawing' = FALSE
  /\ startPoint' = <<>>
  /\ UNCHANGED <<histVars, activeTool, clickVars>>

\* a checkpoint callback that stores the new history and leaves the cursor
CheckpointTimerCursorKept ==
  /\ pending # <<>>
  /\ LET cb == Head(pending)
     IN history' = SliceAndPush(cb.hist, cb.idx, [elements |-> cb.snap])
  /\ pending' = Tail(pending)
  /\ UNCHANGED <<elements, historyIndex, activeTool, clickVars, gestureVars,
                 editors>>

\* the setTimeout callback of handleElementAdd / handleTextConfirm runs
CheckpointTimer ==
  /\ pending # <<>>
  /\ LET cb == Head(pending)
         newHistory == SliceAndPush(cb.hist, cb.idx, [elements |-> cb.snap])
     IN /\ history' = newHistory
        /\ historyIndex' = Len(newHistory) - 1
  /\ pending' = Tail(pending)
  /\ UNCHANGED <<elements, activeTool, clickVars, gestureVars, editors>>

\* Toolbar: onUndo
Undo ==
  LET r == UndoResult(elements, history, historyIndex)
  IN /\ elements' = r.elements
     /\ historyIndex' = r.historyIndex
     /\ editors' = Remount(editors, r.elements)
     /\ UNCHANGED <<history, pending, activeTool, clickVars, gestureVars>>

\* Toolbar: onRedo
Redo ==
  LET r == RedoResult(elements, history, historyIndex)
  IN /\ elements' = r.elements
     /\ historyIndex' = r.historyIndex
     /\ editors' = Remount(editors, r.elements)
     /\ UNCHANGED <<history, pending, activeTool, clickVars, gestureVars>>

\* InPlaceTextEditor: handleTextInput, with onTextChange = handleTextChange
TextInput ==
  \E id \in DOMAIN editors, text \in TextInputs :
    /\ text # editors[id].text
    /\ editors' = [editors EXCEPT ![id].text = text]
    /\ elements' = handleTextChange(elements, id, text)
    /\ UNCHANGED <<histVars, pending, activeTool, clickVars, gestureVars>>

\* InPlaceTextEditor: handleConfirm (Enter or the confirm button) of the editor
\* with key id, with onConfirm = handleTextConfirm, onCancel = handleTextCancel
ConfirmEditor(id) ==
  LET text == Trim(editors[id].text)
      format == [fontSize |-> editors[id].fontSize]
      confirmed == ConfirmMap(elements, id, text, format)
      newElements == IF text # <<>> THEN confirmed
                     ELSE handleTextCancel(elements, id)
      newPending == IF text # <<>>
                      THEN Append(pending,
                             Checkpoint(history, historyIndex, confirmed))
                      ELSE pending
  IN /\ WithinBounds(newElements, newPending)
     /\ elements' = newElements
     /\ pending' = newPending
     /\ editors' = Remount(editors, newElements)
     /\ UNCHANGED <<histVars, activeTool, clickVars, gestureVars>>

EditorConfirm == \E id \in DOMAIN editors : ConfirmEditor(id)

\* InPlaceTextEditor: Escape or the cancel button of the editor with key id,
\* onCancel = handleTextCancel
CancelEditor(id) ==
  LET newElements == handleTextCancel(elements, id)
  IN /\ elements' = newElements
     /\ editors' = Remount(editors, newElements)
     /\ UNCHANGED <<histVars, pending, activeTool, clickVars, gestureVars>>

EditorCancel == \E id \in DOMAIN editors : CancelEditor(id)

\* InPlaceTextEditor: a size of the size dropdown is picked, updateFormat
EditorFontSize ==
  \E id \in DOMAIN editors, size \in EditorFontSizes :
    /\ size # editors[id].fontSize
    /\ editors' = [editors EXCEPT ![id].fontSize = size]
    /\ UNCHANGED <<elements, histVars, pending, activeTool, clickVars,
                   gestureVars>>

\* the font size drawElement of the canvas draws a text element with:
\* (element.textFormat || { fontSize: element.fontSize || 16 }).fontSize
CanvasFontSize(el) ==
  IF el.textFormat # NoFormat THEN el.textFormat.fontSize
  ELSE Or3(el.fontSize, DefaultFontSize, DefaultFontSize)

\* the entry point deleteElement(id) = handleElementDelete, for an element of the set
ElementDelete ==
  \E i \in 1..Len(elements) :
    LET newElements == handleElementDelete(elements, elements[i].id)
    IN /\ elements' = newElements
       /\ editors' = Remount(editors, newElements)
       /\ UNCHANGED <<histVars, pending, activeTool, clickVars, gestureVars>>

\* Toolbar: onToolChange to a drawing tool
SetShapeTool ==
  \E t \in Tools \cap ShapeTools :
    /\ t # activeTool
    /\ activeTool' = t
    /\ UNCHANGED <<elements, histVars, pending, clickVars, gestureVars, editors>>

\* PDFViewer renders its two canvases when it has a file and isLoading is off
CanvasMounted == pdfFile # <<>> /\ ~isLoading

\* handleFileUpload for the file f, and the load PDFViewer starts for it
Upload(f) ==
  /\ Len(loading) < MaxLoading
  /\ pdfFile' = <<f>>
  /\ currentPage' = 1
  /\ elements' = <<>>
  /\ history' = <<>>
  /\ historyIndex' = -1
  /\ editors' = Remount(editors, <<>>)
  /\ loading' = Append(loading, f)
  /\ isLoading' = TRUE
  /\ UNCHANGED <<pending, activeTool, clickVars, gestureVars, totalPages,
                 scale, pdfDocument, outVars>>

\* Toolbar: onFileUpload = handleFileUpload, with a file that holds a document
FileUpload == \E f \in Files : Upload(f)

\* Toolbar: onFileUpload with a file of type application/pdf whose bytes hold
\* no document
CorruptUpload == Upload(CorruptFile)

\* loadPdf of PDFViewer resolves: onDocumentLoadSuccess = handleDocumentLoadSuccess
LoadSuccess ==
  \E k \in 1..Len(loading) :
    /\ loading[k].numPages > 0
    /\ pdfDocument' = <<loading[k]>>
    /\ totalPages' = loading[k].numPages
    /\ isLoading' = FALSE
    /\ loading' = RemoveAt(loading, k)
    /\ UNCHANGED <<editVars, pdfFile, currentPage, scale, outVars>>

\* loadPdf of PDFViewer throws: the error is logged and isLoading is turned off
LoadFailure ==
  \E k \in 1..Len(loading) :
    /\ loading[k].numPages = 0
    /\ isLoading' = FALSE
    /\ loading' = RemoveAt(loading, k)
    /\ UNCHANGED <<editVars, pdfFile, currentPage, totalPages, scale,
                   pdfDocument, outVars>>

\* a next-page handler that also empties the element set
NextPageClearing ==
  /\ currentPage < totalPages
  /\ currentPage' = currentPage + 1
  /\ elements' = <<>>
  /\ UNCHANGED <<histVars, pending, activeTool, clickVars, gestureVars,
                 editors, pdfFile, totalPages, scale, loading, viewerVars,
                 outVars>>

\* Toolbar: onNextPage = handleNextPage (the button is disabled otherwise)
NextPage ==
  /\ currentPage < totalPages
  /\ currentPage' = currentPage + 1
  /\ UNCHANGED <<editVars, pdfFile, totalPages, scale, loading, viewerVars,
                 outVars>>

\* Toolbar: onPreviousPage = handlePreviousPage (the button is disabled otherwise)
PreviousPage ==
  /\ currentPage > 1
  /\ currentPage' = currentPage - 1
  /\ UNCHANGED <<editVars, pdfFile, totalPages, scale, loading, viewerVars,
                 outVars>>

\* Toolbar: onZoomIn = handleZoomIn
ZoomIn ==
  /\ scale' = QMin(QAdd(scale, Q(1, 4)), QInt(3))
  /\ UNCHANGED <<editVars, pdfFile, currentPage, totalPages, loading,
                 viewerVars, outVars>>

\* Toolbar: onZoomOut = handleZoomOut
ZoomOut ==
  /\ scale' = QMax(QSub(scale, Q(1, 4)), Q(1, 4))
  /\ UNCHANGED <<editVars, pdfFile, currentPage, totalPages, loading,
                 viewerVars, outVars>>

\* Toolbar: onDownload = handleDownload, up to the call of the exporter, whose
\* arguments are the state of the render that made the handler
Download ==
  /\ IF pdfFile = <<>>
       THEN /\ alerts' = alerts + 1
            /\ UNCHANGED <<exports, saved>>
     ELSE IF Len(elements) > 0
       THEN /\ Len(exports) < MaxExports
            /\ exports' = Append(exports,
                  [file |-> pdfFile[1], elements |-> elements,
                   pageNumber |-> currentPage, scale |-> scale])
            /\ UNCHANGED <<saved, alerts>>
       ELSE /\ saved' = Append(saved,
                  [name |-> "copy", file |-> pdfFile[1], commands |-> <<>>])
            /\ UNCHANGED <<exports, alerts>>
  /\ UNCHANGED <<editVars, viewVars>>

\* an export that commits the text being edited in the set it was given
FinishExportCommitting(k) ==
  LET call == exports[k]
      r == mergePDFWithAnnotations(call.file, call.elements, call.pageNumber,
                                   call.scale)
  IN /\ exports' = RemoveAt(exports, k)
     /\ saved' = IF r.ok
                   THEN Append(saved, [name |-> "edited", file |-> call.file,
                                       commands |-> r.commands])
                   ELSE saved
     /\ alerts' = IF r.ok THEN alerts ELSE alerts + 1
     /\ elements' = [i \in 1..Len(elements) |->
                       [elements[i] EXCEPT !.isEditing = FALSE]]
     /\ editors' = << >>
     /\ UNCHANGED <<history, historyIndex, pending, activeTool, clickVars,
                    gestureVars, viewVars>>

\* the k-th export call in flight settles: handleDownload saves the bytes it
\* resolved with, or reports the error it threw
FinishExport(k) ==
  LET call == exports[k]
      r == mergePDFWithAnnotations(call.file, call.elements, call.pageNumber,
                                   call.scale)
  IN /\ exports' = RemoveAt(exports, k)
     /\ IF r.ok
          THEN /\ saved' = Append(saved,
                     [name |-> "edited", file |-> call.file,
                      commands |-> r.commands])
               /\ UNCHANGED alerts
          ELSE /\ alerts' = alerts + 1
               /\ UNCHANGED saved
     /\ UNCHANGED <<editVars, viewVars>>

ExportFinish == \E k \in 1..Len(exports) : FinishExport(k)

(***************************************************************************)
(* Specifications.  Spec: every event of the editor.  SpecAdds: the user   *)
(* only draws shapes.  SpecHistory: shapes, undo and redo.  SpecApi:       *)
(* shapes, undo, redo and deleteElement.                                   *)
(***************************************************************************)
Next ==
  \/ Tick(MaxSteps) /\ SetTool
  \/ Tick(MaxSteps) /\ MouseDown
  \/ Tick(MaxSteps) /\ MouseMove
  \/ Tick(MaxSteps) /\ MouseUp
  \/ Tick(MaxSteps) /\ CheckpointTimer
  \/ Tick(MaxSteps) /\ Undo
  \/ Tick(MaxSteps) /\ Redo
  \/ Tick(MaxSteps) /\ TextInput
  \/ Tick(MaxSteps) /\ EditorConfirm
  \/ Tick(MaxSteps) /\ EditorCancel

Spec == Init /\ [][Next]_vars

NextAdds ==
  \/ Tick(MaxSteps) /\ SetShapeTool
  \/ Tick(MaxSteps) /\ MouseDown
  \/ Tick(MaxSteps) /\ MouseMove
  \/ Tick(MaxSteps) /\ MouseUp
  \/ Tick(MaxSteps) /\ CheckpointTimer

SpecAdds == Init /\ [][NextAdds]_vars

NextHistory ==
  \/ Tick(MaxHistorySteps) /\ SetShapeTool
  \/ Tick(MaxHistorySteps) /\ MouseDown
  \/ Tick(MaxHistorySteps) /\ MouseMove
  \/ Tick(MaxHistorySteps) /\ MouseUp
  \/ Tick(MaxHistorySteps) /\ CheckpointTimer
  \/ Tick(MaxHistorySteps) /\ Undo
  \/ Tick(MaxHistorySteps) /\ Redo

SpecHistory == Init /\ [][NextHistory]_vars

NextApi ==
  \/ Tick(MaxSteps) /\ SetShapeTool
  \/ Tick(MaxSteps) /\ MouseDown
  \/ Tick(MaxSteps) /\ MouseMove
  \/ Tick(MaxSteps) /\ MouseUp
  \/ Tick(MaxSteps) /\ CheckpointTimer
  \/ Tick(MaxSteps) /\ Undo
  \/ Tick(MaxSteps) /\ Redo
  \/ Tick(MaxSteps) /\ ElementDelete

SpecApi == Init /\ [][NextApi]_vars

(***************************************************************************)
(* SpecExport: text drafts and rectangles added, documents opened, pages   *)
(* turned, and the export of the annotated page.                           *)
(***************************************************************************)
NextExport ==
  \/ Tick(MaxExportSteps) /\ CanvasMounted /\ SetTool
  \/ Tick(MaxExportSteps) /\ CanvasMounted /\ MouseDown
  \/ Tick(MaxExportSteps) /\ CanvasMounted /\ MouseUp
  \/ Tick(MaxExportSteps) /\ CheckpointTimer
  \/ Tick(MaxExportSteps) /\ TextInput
  \/ StepCount(MaxExportSteps) /\ FileUpload
  \/ StepCount(MaxExportSteps) /\ LoadSuccess
  \/ StepCount(MaxExportSteps) /\ NextPage
  \/ StepCount(MaxExportSteps) /\ PreviousPage
  \/ StepCount(MaxExportSteps) /\ Download
  \/ StepCount(MaxExportSteps) /\ ExportFinish

SpecExport == Init /\ [][NextExport]_vars

(***************************************************************************)
(* SpecDraw: the exporter as a function of the element, the zoom factor    *)
(* and the page height.  The set holds one committed element, of any kind, *)
(* whose points are corners of two grids on which every distance is whole. *)
(***************************************************************************)
GridA == {Pt(0, 0), Pt(6, 8)}
GridB == {Pt(10, 10), Pt(50, 40), Pt(10, 40), Pt(50, 10)}

DrawnPoints ==
  {<<p>> : p \in GridA \cup GridB}
    \cup {<<p, q>> : p \in GridA, q \in GridA}
    \cup {<<p, q>> : p \in GridB, q \in GridB}

CommittedText(id, point, text, fs) ==
  [id |-> id, type |-> "text", points |-> <<point>>, text |-> text,
   fontSize |-> fs, isEditing |-> FALSE, textFormat |-> [fontSize |-> fs]]

ExportedElements ==
  {ShapeElement(StartTime, t, pts) : t \in ShapeTools, pts \in DrawnPoints}
    \cup {CommittedText(StartTime, p, <<"H", "i">>, fs) :
            p \in {Pt(20, 30), Pt(6, 8)}, fs \in {DefaultFontSize, 24}}

ExportedFiles == {File(1, PageHeight), File(1, 300)}

InitDraw ==
  /\ elements \in {<<el>> : el \in ExportedElements}
  /\ pdfFile \in {<<f>> : f \in ExportedFiles}
  /\ history = <<>>
  /\ historyIndex = -1
  /\ pending = <<>>
  /\ activeTool = "select"
  /\ now = StartTime
  /\ lastClickTime = 0
  /\ lastClickElement = NoId
  /\ isDrawing = FALSE
  /\ startPoint = <<>>
  /\ currentElement = <<>>
  /\ editors = <<>>
  /\ currentPage = 1
  /\ totalPages = 1
  /\ scale = QInt(1)
  /\ loading = <<>>
  /\ pdfDocument = pdfFile
  /\ isLoading = FALSE
  /\ exports = <<>>
  /\ saved = <<>>
  /\ alerts = 0
  /\ heap = EmptyHeap
  /\ steps = 0

NextDraw ==
  \/ StepCount(MaxDrawSteps) /\ ZoomIn
  \/ StepCount(MaxDrawSteps) /\ ZoomOut
  \/ StepCount(MaxDrawSteps) /\ Download
  \/ StepCount(MaxDrawSteps) /\ ExportFinish

SpecDraw == InitDraw /\ [][NextDraw]_vars

(***************************************************************************)
(* SpecColor: parseColor as a function of the colour string.  The set      *)
(* holds one rectangle handed over with a colour string put together from  *)
(* an optional '#' and three channel strings, well formed or not.          *)
(***************************************************************************)
ChannelInputs ==
  {<<"f", "f">>, <<"0", "0">>, <<"8", "0">>, <<"A", "b">>, <<"g", "0">>,
   <<"1", "g">>, <<"c">>, <<>>}

ColorInputs ==
  {lead \o x \o y \o z :
     lead \in {<<"#">>, <<>>}, x \in ChannelInputs, y \in ChannelInputs,
     z \in ChannelInputs}
    \cup {<<"#", "a", "b", "c">>, <<"r", "e", "d">>, DefaultColor \o <<"0">>}

ColoredShape(id, tool, pts, c) ==
  [id |-> id, type |-> tool, points |-> pts, text |-> <<>>, fontSize |-> 0,
   isEditing |-> FALSE, textFormat |-> NoFormat, color |-> c]

InitColor ==
  /\ elements \in {<<ColoredShape(StartTime, "rectangle",
                                  <<Pt(10, 10), Pt(50, 40)>>, c)>> :
                     c \in ColorInputs}
  /\ pdfFile = <<File(1, PageHeight)>>
  /\ history = <<>>
  /\ historyIndex = -1
  /\ pending = <<>>
  /\ activeTool = "select"
  /\ now = StartTime
  /\ lastClickTime = 0
  /\ lastClickElement = NoId
  /\ isDrawing = FALSE
  /\ startPoint = <<>>
  /\ currentElement = <<>>
  /\ editors = <<>>
  /\ currentPage = 1
  /\ totalPages = 1
  /\ scale = QInt(1)
  /\ loading = <<>>
  /\ pdfDocument = pdfFile
  /\ isLoading = FALSE
  /\ exports = <<>>
  /\ saved = <<>>
  /\ alerts = 0
  /\ heap = EmptyHeap
  /\ steps = 0

NextColor ==
  \/ StepCount(MaxColorSteps) /\ Download
  \/ StepCount(MaxColorSteps) /\ ExportFinish

SpecColor == InitColor /\ [][NextColor]_vars

(***************************************************************************)
(* SpecLoad: documents opened, loads that resolve or fail in any order,    *)
(* pages turned, rectangles drawn on the canvas and the export.            *)
(***************************************************************************)
NextLoad ==
  \/ StepCount(MaxLoadSteps) /\ FileUpload
  \/ StepCount(MaxLoadSteps) /\ CorruptUpload
  \/ StepCount(MaxLoadSteps) /\ LoadSuccess
  \/ StepCount(MaxLoadSteps) /\ LoadFailure
  \/ StepCount(MaxLoadSteps) /\ NextPage
  \/ StepCount(MaxLoadSteps) /\ PreviousPage
  \/ Tick(MaxLoadSteps) /\ CanvasMounted /\ SetShapeTool
  \/ Tick(MaxLoadSteps) /\ CanvasMounted /\ MouseDown
  \/ Tick(MaxLoadSteps) /\ CanvasMounted /\ MouseUp
  \/ StepCount(MaxLoadSteps) /\ Download
  \/ StepCount(MaxLoadSteps) /\ ExportFinish

SpecLoad == Init /\ [][NextLoad]_vars

(***************************************************************************)
(* SpecText: text elements typed, given a size in the editor, confirmed    *)
(* and exported.                                                           *)
(***************************************************************************)
NextText ==
  \/ Tick(MaxTextSteps) /\ SetTool
  \/ Tick(MaxTextSteps) /\ MouseDown
  \/ Tick(MaxTextSteps) /\ CheckpointTimer
  \/ Tick(MaxTextSteps) /\ TextInput
  \/ Tick(MaxTextSteps) /\ EditorFontSize
  \/ Tick(MaxTextSteps) /\ EditorConfirm
  \/ StepCount(MaxTextSteps) /\ Download
  \/ StepCount(MaxTextSteps) /\ ExportFinish

SpecText == Init /\ [][NextText]_vars

(***************************************************************************)
(* SpecErase: rectangles drawn and the eraser used on the canvas.          *)
(***************************************************************************)
NextErase ==
  \/ Tick(MaxEraseSteps) /\ SetShapeTool
  \/ Tick(MaxEraseSteps) /\ SetEraser
  \/ Tick(MaxEraseSteps) /\ MouseDown
  \/ Tick(MaxEraseSteps) /\ MouseMove
  \/ Tick(MaxEraseSteps) /\ MouseUp
  \/ Tick(MaxEraseSteps) /\ CheckpointTimer
  \/ Tick(MaxEraseSteps) /\ Erase
  \/ Tick(MaxEraseSteps) /\ EraserHover

SpecErase == Init /\ [][NextErase]_vars

(***************************************************************************)
(* The object store.  The actions above hold the elements by value; here   *)
(* the same handlers are written over references, to follow which objects  *)
(* the element set, the snapshots and currentElementRef share.  An address *)
(* is an index of heap.objects, 0 is null; heap.elements, the snapshots    *)
(* and the checkpoints list addresses.                                     *)
(***************************************************************************)
HeapTools == {"select", "text", "draw", "rectangle"}
\* deltas of a drag of the editor
MoveDeltas == {Pt(5, 0)}

\* the elements an array of references lists
Deref(h, addrs) == [i \in 1..Len(addrs) |-> h.objects[addrs[i]]]

\* positions of the array whose element carries the id
Matches(h, addrs, id) == {i \in 1..Len(addrs) : h.objects[addrs[i]].id = id}

Rank(S, i) == Cardinality({j \in S : j <= i})

Nth(S, k) == CHOOSE i \in S : Rank(S, i) = k

\* prev.map(el => el.id === id ? { ...el, ...updates } : el): a new array, a
\* new object for every element found, the other objects shared
MapRefs(h, addrs, id, F(_)) ==
  LET m == Matches(h, addrs, id)
      n == Len(h.objects)
  IN [objects |-> h.objects \o
                    [k \in 1..Cardinality(m) |-> F(h.objects[addrs[Nth(m, k)]])],
      addrs |-> [i \in 1..Len(addrs) |->
                   IF i \in m THEN n + Rank(m, i) ELSE addrs[i]]]

\* prev.filter(el => el.id !== id): a new array over the same objects
FilterRefs(h, addrs, id) ==
  LET Keep(a) == h.objects[a].id # id IN SelectSeq(addrs, Keep)

\* positions of the set that hold a text element in edit mode
EditingPositions(h) ==
  {i \in 1..Len(h.elements) : IsEditingText(h.objects[h.elements[i]])}

HeapBounds(h) ==
  /\ Len(h.elements) <= MaxElems
  /\ Len(h.pending) <= MaxPending
  /\ h.pending # heap.pending => h.historyIndex + 2 <= MaxHist

\* an event of the object store: the state held by value is left alone
HeapStep(max) ==
  steps < max /\ steps' = steps + 1 /\ UNCHANGED <<editVars, exportVars>>

\* Toolbar: onToolChange
HeapSetTool ==
  \E t \in HeapTools :
    /\ t # heap.activeTool
    /\ heap' = [heap EXCEPT !.activeTool = t]

\* handleMouseDown
HeapMouseDown ==
  \E point \in Points, dt \in Delays :
    LET currentTime == heap.now + dt
        els == Deref(heap, heap.elements)
        hit == getTextElementAtPoint(els, point)
        viewportPoint == Pt(point.x + CanvasLeft, point.y + CanvasTop)
        addr == Len(heap.objects) + 1
        s == [heap EXCEPT !.now = currentTime]
        tracked == [s EXCEPT !.lastClickTime = currentTime,
                             !.lastClickElement = NoId]
        drawing == [tracked EXCEPT !.isDrawing = TRUE, !.startPoint = <<point>>]
        Edit(o) ==
          [o EXCEPT !.isEditing = TRUE,
                    !.points = <<ToViewportPoint(o.points[1],
                                   Or3(o.textFormat.fontSize, o.fontSize,
                                       DefaultFontSize))>>]
        entered == MapRefs(heap, heap.elements, els[hit].id, Edit)
        newElements == Append(heap.elements, addr)
        r == IF hit # 0 /\ heap.activeTool = "select"
               THEN IF currentTime - heap.lastClickTime < DoubleClickMs
                       /\ heap.lastClickElement = els[hit].id
                      THEN IF ExistingEditing(els)
                             THEN s
                             ELSE [s EXCEPT !.objects = entered.objects,
                                            !.elements = entered.addrs,
                                            !.lastClickTime = 0,
                                            !.lastClickElement = NoId]
                      ELSE [s EXCEPT !.lastClickTime = currentTime,
                                     !.lastClickElement = els[hit].id]
             ELSE IF heap.activeTool = "select" THEN tracked
             ELSE IF heap.activeTool = "text"
               THEN IF ExistingEditing(els) THEN drawing
                    ELSE IF hit # 0
                      THEN [drawing EXCEPT !.objects = entered.objects,
                                           !.elements = entered.addrs]
                      ELSE [drawing EXCEPT
                              !.objects = Append(@, NewTextElement(currentTime,
                                                   viewportPoint, DefaultFontSize)),
                              !.elements = newElements,
                              !.pending = Append(@, Checkpoint(heap.history,
                                                   heap.historyIndex, newElements))]
             ELSE [drawing EXCEPT
                     !.objects = Append(@, ShapeElement(currentTime,
                                                        heap.activeTool, <<point>>)),
                     !.currentElementRef = addr]
    IN /\ currentTime <= StartTime + MaxElapsed
       /\ HeapBounds(r)
       /\ heap' = r

\* handleMouseMove: the object currentElementRef points at is written in place
HeapMouseMove ==
  \E point \in Points :
    /\ heap.isDrawing /\ heap.currentElementRef # 0
    /\ heap.activeTool # "select"
    /\ LET a == heap.currentElementRef
           cur == heap.objects[a]
           pts == IF heap.activeTool = "draw"
                    THEN Append(cur.points, point)
                    ELSE <<heap.startPoint[1], point>>
       IN /\ Len(pts) <= MaxPoints
          /\ pts # cur.points
          /\ heap' = [heap EXCEPT !.objects[a].points = pts]

\* a handleMouseUp that leaves currentElementRef pointing at the added object
HeapMouseUpKeepingRef ==
  /\ heap.isDrawing /\ heap.currentElementRef # 0
  /\ LET newElements == Append(heap.elements, heap.currentElementRef)
         r == [heap EXCEPT
                 !.elements = newElements,
                 !.pending = Append(@, Checkpoint(heap.history,
                                                  heap.historyIndex, newElements)),
                 !.isDrawing = FALSE,
                 !.startPoint = <<>>]
     IN HeapBounds(r) /\ heap' = r

\* handleMouseUp, with onElementAdd = handleElementAdd: the object of the ref
\* enters the set and the checkpoint, and the ref is cleared
HeapMouseUp ==
  /\ heap.isDrawing /\ heap.currentElementRef # 0
  /\ LET newElements == Append(heap.elements, heap.currentElementRef)
         r == [heap EXCEPT
                 !.elements = newElements,
                 !.pending = Append(@, Checkpoint(heap.history,
                                                  heap.historyIndex, newElements)),
                 !.currentElementRef = 0,
                 !.isDrawing = FALSE,
                 !.startPoint = <<>>]
     IN HeapBounds(r) /\ heap' = r

\* the setTimeout callback of handleElementAdd / handleTextConfirm runs
HeapCheckpointTimer ==
  /\ heap.pending # <<>>
  /\ LET cb == Head(heap.pending)
         newHistory == SliceAndPush(cb.hist, cb.idx, [elements |-> cb.snap])
     IN heap' = [heap EXCEPT !.history = newHistory,
                             !.historyIndex = Len(newHistory) - 1,
                             !.pending = Tail(@)]

\* handleTextChange, called by the editor of an element in edit mode
HeapTextChange ==
  \E i \in EditingPositions(heap), text \in TextInputs :
    LET el == heap.objects[heap.elements[i]]
        Change(o) == [o EXCEPT !.text = text]
        r == MapRefs(heap, heap.elements, el.id, Change)
    IN /\ text # el.text
       /\ heap' = [heap EXCEPT !.objects = r.objects, !.elements = r.addrs]

\* handleTextMove, called by a drag of the editor
HeapTextMove ==
  \E i \in EditingPositions(heap), delta \in MoveDeltas :
    LET el == heap.objects[heap.elements[i]]
        Move(o) ==
          [o EXCEPT !.points = [k \in 1..Len(o.points) |->
                                  Pt(o.points[k].x + delta.x, o.points[k].y + delta.y)]]
        r == MapRefs(heap, heap.elements, el.id, Move)
    IN /\ el.points[1].x + delta.x <= CanvasLeft + CanvasWidth
       /\ heap' = [heap EXCEPT !.objects = r.objects, !.elements = r.addrs]

\* handleTextConfirm with a text that is not blank: one map for the set, and
\* one more, over the set of the render, for the checkpoint
HeapTextConfirm ==
  \E i \in EditingPositions(heap) :
    LET el == heap.objects[heap.elements[i]]
        text == Trim(el.text)
        Confirm(o) ==
          ConfirmMap(<<o>>, el.id, text, [fontSize |-> DefaultFontSize])[1]
        set == MapRefs(heap, heap.elements, el.id, Confirm)
        snap == MapRefs([heap EXCEPT !.objects = set.objects], heap.elements,
                        el.id, Confirm)
        r == [heap EXCEPT
                !.objects = snap.objects,
                !.elements = set.addrs,
                !.pending = Append(@, Checkpoint(heap.history, heap.historyIndex,
                                                 snap.addrs))]
    IN /\ text # <<>>
       /\ HeapBounds(r)
       /\ heap' = r

\* handleTextCancel, called by Escape and by a confirm of a blank text
HeapTextCancel ==
  \E i \in EditingPositions(heap) :
    heap' = [heap EXCEPT !.elements =
               FilterRefs(heap, heap.elements, heap.objects[heap.elements[i]].id)]

\* handleElementDelete, for a committed element of the set
HeapElementDelete ==
  \E i \in 1..Len(heap.elements) :
    /\ i \notin EditingPositions(heap)
    /\ heap' = [heap EXCEPT !.elements =
                  FilterRefs(heap, heap.elements, heap.objects[heap.elements[i]].id)]

\* handleUndo: the set becomes a copy of the array of the snapshot
HeapUndo ==
  /\ heap.historyIndex > 0
  /\ LET r == UndoResult(heap.elements, heap.history, heap.historyIndex)
     IN heap' = [heap EXCEPT !.elements = r.elements,
                             !.historyIndex = r.historyIndex]

\* handleRedo
HeapRedo ==
  /\ heap.historyIndex < Len(heap.history) - 1
  /\ LET r == RedoResult(heap.elements, heap.history, heap.historyIndex)
     IN heap' = [heap EXCEPT !.elements = r.elements,
                             !.historyIndex = r.historyIndex]

(***************************************************************************)
(* SpecHeap: the editing handlers over the object store.                   *)
(***************************************************************************)
NextHeap ==
  \/ HeapStep(MaxHeapSteps) /\ HeapSetTool
  \/ HeapStep(MaxHeapSteps) /\ HeapMouseDown
  \/ HeapStep(MaxHeapSteps) /\ HeapMouseMove
  \/ HeapStep(MaxHeapSteps) /\ HeapMouseUp
  \/ HeapStep(MaxHeapSteps) /\ HeapCheckpointTimer
  \/ HeapStep(MaxHeapSteps) /\ HeapTextChange
  \/ HeapStep(MaxHeapSteps) /\ HeapTextMove
  \/ HeapStep(MaxHeapSteps) /\ HeapTextConfirm
  \/ HeapStep(MaxHeapSteps) /\ HeapTextCancel
  \/ HeapStep(MaxHeapSteps) /\ HeapElementDelete
  \/ HeapStep(MaxHeapSteps) /\ HeapUndo
  \/ HeapStep(MaxHeapSteps) /\ HeapRedo

SpecHeap == Init /\ [][NextHeap]_vars

(***************************************************************************)
(* Helpers of the properties.                                              *)
(***************************************************************************)
Ids(els) == {els[i].id : i \in 1..Len(els)}

SnapshotIds(hist) == UNION {Ids(hist[i].elements) : i \in 1..Len(hist)}

PendingIds(pend) ==
  UNION {Ids(pend[k].snap) \cup SnapshotIds(pend[k].hist) : k \in 1..Len(pend)}

\* n times handleUndo on the present history
RECURSIVE UndoN(_, _, _)
UndoN(els, idx, n) ==
  IF n = 0 THEN [elements |-> els, historyIndex |-> idx]
  ELSE LET r == UndoResult(els, history, idx)
       IN UndoN(r.elements, r.historyIndex, n - 1)

\* the callback at the head of the queue runs in this step
TimerStep == pending # <<>> /\ CheckpointTimer

\* a committed (isEditing = FALSE) element with this id is recorded somewhere
CommittedInHistory(id) ==
  \/ \E i \in 1..Len(history) : \E j \in 1..Len(history[i].elements) :
       history[i].elements[j].id = id /\ ~history[i].elements[j].isEditing
  \/ \E k \in 1..Len(pending) : \E j \in 1..Len(pending[k].snap) :
       pending[k].snap[j].id = id /\ ~pending[k].snap[j].isEditing

\* the editor with key id edits an element that was never committed
Draft(id) ==
  /\ \E i \in 1..Len(elements) : elements[i].id = id /\ IsEditingText(elements[i])
  /\ ~CommittedInHistory(id)

EditingTextCount(els) == Cardinality({i \in 1..Len(els) : IsEditingText(els[i])})

(***************************************************************************)
(* C1 (SpecAdds).  From the empty set and the empty history, after N >= 1  *)
(* additions, each checkpointed, and no undo: canUndo, not canRedo, and N  *)
(* undos give back the empty set.                                          *)
(***************************************************************************)
C1_HistoryMonotonicity ==
  (pending = <<>> /\ Len(elements) >= 1 /\ Len(history) = Len(elements)) =>
    /\ canUndo
    /\ ~canRedo
    /\ UndoN(elements, historyIndex, Len(elements)).elements = <<>>

(***************************************************************************)
(* C2 (SpecHistory).  A checkpoint taken while the cursor is below the last index        *)
(* discards the snapshots beyond the cursor: once it is taken a redo is a  *)
(* no-op, and when its callback has run the history ends with its snapshot *)
(* right after the cursor it was taken at, the cursor is on it and the     *)
(* element set is that snapshot.                                           *)
(***************************************************************************)
TakenBelowLast(cb) == cb.idx < Len(cb.hist) - 1

C2_RedoBranchDiscard ==
  [][/\ (pending # <<>> /\ TakenBelowLast(pending[Len(pending)]) /\ Redo)
          => UNCHANGED <<elements, historyIndex>>
     /\ (TimerStep /\ TakenBelowLast(Head(pending))) =>
          /\ Len(history') = Head(pending).idx + 2
          /\ historyIndex' = Len(history') - 1
          /\ elements' = history'[Len(history')].elements]_vars

(***************************************************************************)
(* C3.  undo with the cursor above 0 moves the cursor down by one and      *)
(* replaces the element set by the snapshot at the new cursor; with the    *)
(* cursor at 0 or the history empty it changes nothing; the snapshot list  *)
(* is never changed.                                                       *)
(***************************************************************************)
C3_UndoStep ==
  [][Undo =>
       /\ history' = history
       /\ IF historyIndex > 0
            THEN /\ historyIndex' = historyIndex - 1
                 /\ elements' = history[historyIndex' + 1].elements
            ELSE /\ historyIndex' = historyIndex
                 /\ elements' = elements]_vars

\* an undo has moved the cursor below the last snapshot and restored it
C3_Witness ==
  /\ historyIndex >= 0
  /\ historyIndex < Len(history) - 1
  /\ elements = history[historyIndex + 1].elements
  /\ elements # history[historyIndex + 2].elements

(***************************************************************************)
(* C4.  redo with the cursor below the last index moves the cursor up by   *)
(* one and replaces the element set by the snapshot at the new cursor; at  *)
(* the last index it changes nothing; the snapshot list is never changed.  *)
(***************************************************************************)
C4_RedoStep ==
  [][Redo =>
       /\ history' = history
       /\ IF historyIndex < Len(history) - 1
            THEN /\ historyIndex' = historyIndex + 1
                 /\ elements' = history[historyIndex' + 1].elements
            ELSE /\ historyIndex' = historyIndex
                 /\ elements' = elements]_vars

\* a redo has moved the cursor above the one a waiting checkpoint was taken
\* at (the history is the one the callback captured, so no callback has run)
C4_Witness ==
  /\ pending # <<>>
  /\ Head(pending).hist = history
  /\ Head(pending).idx >= 0
  /\ Head(pending).idx < historyIndex
  /\ elements = history[historyIndex + 1].elements

(***************************************************************************)
(* C5 (SpecAdds).  Every add produces exactly one checkpoint: once the     *)
(* deferred callbacks have run, the history holds one snapshot per add,    *)
(* the i-th being the set after the i-th add.                              *)
(***************************************************************************)
C5_OneCheckpointPerAdd ==
  pending = <<>> =>
    /\ Len(history) = Len(elements)
    /\ \A i \in 1..Len(history) : history[i].elements = SubSeq(elements, 1, i)

(***************************************************************************)
(* C6 (SpecApi).  deleteElement produces one checkpoint: the set without   *)
(* the element is recorded as the snapshot at the cursor, at once or by a  *)
(* callback scheduled in the same step.                                    *)
(***************************************************************************)
C6_DeleteCheckpoints ==
  [][ElementDelete =>
       \/ /\ Len(history') = Len(history) + 1
          /\ historyIndex' = Len(history') - 1
          /\ history'[Len(history')].elements = elements'
       \/ /\ Len(pending') = Len(pending) + 1
          /\ pending'[Len(pending')].snap = elements']_vars

(***************************************************************************)
(* C7.  No snapshot of the history contains an element with isEditing.     *)
(***************************************************************************)
C7_NoEditingInHistory ==
  \A i \in 1..Len(history) : \A j \in 1..Len(history[i].elements) :
    ~history[i].elements[j].isEditing

(***************************************************************************)
(* C8.  Cancelling the edit of a text element that was never committed     *)
(* leaves no trace of it: no snapshot and no scheduled checkpoint holds    *)
(* its id, so that no undo or redo can bring it back.                      *)
(***************************************************************************)
C8_CancelLeavesNoTrace ==
  [][\A id \in DOMAIN editors :
       (CancelEditor(id) /\ Draft(id)) =>
          /\ id \notin SnapshotIds(history')
          /\ id \notin PendingIds(pending')]_vars

(***************************************************************************)
(* C9.  Confirming an editor whose trimmed content is empty removes the    *)
(* element: the set loses exactly one element, the id is absent afterwards *)
(* and the other elements are unchanged.                                   *)
(***************************************************************************)
C9_EmptyConfirmDiscards ==
  [][\A id \in DOMAIN editors :
       (ConfirmEditor(id) /\ Trim(editors[id].text) = <<>>) =>
          /\ Len(elements') = Len(elements) - 1
          /\ id \notin Ids(elements')
          /\ \E i \in 1..Len(elements) :
               elements[i].id = id /\ elements' = RemoveAt(elements, i)]_vars

(***************************************************************************)
(* C10.  At most one text edit session: the set never holds two editing    *)
(* text elements, and a pointer-down while one is open leaves the set      *)
(* unchanged.                                                              *)
(***************************************************************************)
C10_SingleEditSession ==
  [][/\ EditingTextCount(elements') <= 1
     /\ (MouseDown /\ ExistingEditing(elements)) => elements' = elements]_vars

(***************************************************************************)
(* Helpers of the properties of the export.                                *)
(***************************************************************************)
Range(seq) == {seq[i] : i \in 1..Len(seq)}

\* the commands of the output the step has saved, none when it saved nothing
SavedCommands == IF saved' = saved THEN <<>> ELSE saved'[Len(saved')].commands

(***************************************************************************)
(* C11 (SpecExport).  An element with isEditing never reaches the exported *)
(* draw commands: when an export call whose set holds an editing text      *)
(* element settles, it has saved nothing or the commands it has saved hold *)
(* no command drawn from the element as it stands.                         *)
(***************************************************************************)
C11_NoEditingExported ==
  [][\A k \in 1..Len(exports) :
       FinishExport(k) =>
         \A i \in 1..Len(exports[k].elements) :
           LET el == exports[k].elements[i]
           IN IsEditingText(el) =>
                Range(drawElementOnPDF(el, exports[k].scale,
                                       exports[k].file.height))
                  \cap Range(SavedCommands) = {}]_vars

(***************************************************************************)
(* C12.  Re-basing round-trips: when the editor of a text element that was *)
(* committed with the canvas anchor A, and whose anchor is the re-basing   *)
(* of A to viewport space, is confirmed (the element not moved, the font   *)
(* size not changed), the anchor of the element is A again.                *)
(***************************************************************************)
\* the anchors with which the element id is recorded as committed
RecordedAnchors(id) ==
  {e.points[1] :
     e \in {x \in UNION ({Range(history[i].elements) : i \in 1..Len(history)}
                          \cup {Range(pending[k].snap) : k \in 1..Len(pending)}) :
              x.id = id /\ x.type = "text" /\ ~x.isEditing}}

EditFontSize(el) == Or3(el.textFormat.fontSize, el.fontSize, DefaultFontSize)

C12_RebasingRoundTrip ==
  [][\A id \in DOMAIN editors :
       (ConfirmEditor(id) /\ Trim(editors[id].text) # <<>>) =>
         \A i \in 1..Len(elements) : \A A \in RecordedAnchors(id) :
           ( /\ elements[i].id = id
             /\ IsEditingText(elements[i])
             /\ editors[id].fontSize = EditFontSize(elements[i])
             /\ elements[i].points =
                  <<ToViewportPoint(A, EditFontSize(elements[i]))>> )
           => elements'[i].points = <<A>>]_vars

(***************************************************************************)
(* C13.  A text element's anchor is in viewport space exactly when the     *)
(* element is being edited, and in canvas space exactly when it is         *)
(* committed.  The canvas is no wider than its distance from the left edge *)
(* of the viewport, so that an x below CanvasLeft is a canvas coordinate   *)
(* and an x from CanvasLeft on is a viewport coordinate of a canvas point. *)
(***************************************************************************)
InCanvasSpace(p) == p.x >= 0 /\ p.x < CanvasWidth
InViewportSpace(p) == p.x >= CanvasLeft /\ p.x < CanvasLeft + CanvasWidth

C13_SpaceFollowsEditing ==
  /\ CanvasWidth <= CanvasLeft
  /\ \A i \in 1..Len(elements) :
       elements[i].type = "text" =>
         /\ elements[i].isEditing <=> InViewportSpace(elements[i].points[1])
         /\ ~elements[i].isEditing <=> InCanvasSpace(elements[i].points[1])

\* a committed text element has been taken back into edit mode
C13_Witness ==
  \E i \in 1..Len(elements) :
    /\ IsEditingText(elements[i])
    /\ InViewportSpace(elements[i].points[1])
    /\ \E A \in RecordedAnchors(elements[i].id) :
         elements[i].points = <<ToViewportPoint(A, EditFontSize(elements[i]))>>

(***************************************************************************)
(* The page coordinates and sizes the export is to hand over, for a canvas *)
(* point p, the scale s and the page height h.                             *)
(***************************************************************************)
ExpectedX(p, s) == QDiv(QInt(p.x), s)
ExpectedY(p, s, h) == QSub(QInt(h), QDiv(QInt(p.y), s))
ExpectedSize(size, s) == QDiv(QInt(size), s)

\* the Euclidean distance of two canvas points, divided by the scale
ExpectedDistance(p, q, s) ==
  QDiv(QSqrt(QInt((q.x - p.x) * (q.x - p.x) + (q.y - p.y) * (q.y - p.y))), s)

FirstPoint(el) == el.points[1]
LastPoint(el) == el.points[Len(el.points)]

\* the export call k, of a set of one element, settles in this step
ExportsOne(k) == FinishExport(k) /\ Len(exports[k].elements) = 1

\* the radius of a circle command, whether size is read as the radius or
\* as the diameter
Radii(c) == {c.size, QDiv(c.size, QInt(2))}

(***************************************************************************)
(* C14 (SpecDraw).  Every command of an export has its position at the     *)
(* converted point (x / scale, pageHeight - y / scale) of the element (a   *)
(* line is centred on it), and its linear sizes (stroke width, font size,  *)
(* radius, arrow-head length, default highlight height, lengths) are the   *)
(* canvas sizes divided by the scale once.                                 *)
(***************************************************************************)
C14_Conversion ==
  [][\A k \in 1..Len(exports) :
       ExportsOne(k) =>
         LET el == exports[k].elements[1]
             s == exports[k].scale
             h == exports[k].file.height
             p == FirstPoint(el)
             q == LastPoint(el)
             xs == {ExpectedX(p, s), ExpectedX(q, s)}
             ys == {ExpectedY(p, s, h), ExpectedY(q, s, h)}
             sw == ExpectedSize(DefaultStrokeWidth, s)
         IN \A j \in 1..Len(SavedCommands) :
              LET c == SavedCommands[j]
              IN CASE el.type = "text" ->
                        /\ c.x = ExpectedX(p, s) /\ c.y = ExpectedY(p, s, h)
                        /\ c.size = ExpectedSize(el.fontSize, s)
                   [] el.type = "rectangle" ->
                        /\ c.x \in xs /\ c.y \in ys
                        /\ c.width = QAbs(QSub(ExpectedX(q, s), ExpectedX(p, s)))
                        /\ c.height = QAbs(QSub(ExpectedY(q, s, h), ExpectedY(p, s, h)))
                        /\ c.borderWidth = sw
                   [] el.type = "circle" ->
                        /\ c.x = ExpectedX(p, s) /\ c.y = ExpectedY(p, s, h)
                        /\ ExpectedDistance(p, q, s) \in Radii(c)
                        /\ c.borderWidth = sw
                   [] el.type = "highlight" ->
                        /\ c.x \in xs /\ c.y \in ys
                        /\ c.width = QAbs(QSub(ExpectedX(q, s), ExpectedX(p, s)))
                        /\ c.height =
                             IF p.y = q.y
                               THEN ExpectedSize(DefaultHighlightHeight, s)
                               ELSE QAbs(QSub(ExpectedY(q, s, h), ExpectedY(p, s, h)))
                   [] OTHER ->
                        /\ c.height = sw
                        /\ \/ /\ c.x = ExpectedX(p, s)
                              /\ c.y = QSub(ExpectedY(p, s, h), QDiv(sw, QInt(2)))
                              /\ c.width = ExpectedDistance(p, q, s)
                           \/ /\ c.x = ExpectedX(q, s) /\ c.y = ExpectedY(q, s, h)
                              /\ c.width = ExpectedSize(ArrowHeadLength, s)]_vars

(***************************************************************************)
(* C15 (SpecDraw).  A rectangle is exported as one rectangle command with  *)
(* x and y the smaller of the two converted coordinates and width and      *)
(* height the absolute differences, whatever the drag direction; corners   *)
(* (10,10) and (50,40) at scale 1 on a page of height 200 give x = 10,     *)
(* y = 160, width = 40, height = 30.                                       *)
(***************************************************************************)
C15_RectangleExport ==
  [][\A k \in 1..Len(exports) :
       (ExportsOne(k) /\ exports[k].elements[1].type = "rectangle"
          /\ Len(exports[k].elements[1].points) >= 2) =>
         LET el == exports[k].elements[1]
             s == exports[k].scale
             h == exports[k].file.height
             x1 == ExpectedX(FirstPoint(el), s)
             x2 == ExpectedX(LastPoint(el), s)
             y1 == ExpectedY(FirstPoint(el), s, h)
             y2 == ExpectedY(LastPoint(el), s, h)
         IN /\ Len(SavedCommands) = 1
            /\ LET c == SavedCommands[1]
               IN /\ c.op = "drawRectangle"
                  /\ c.x \in {x1, x2} /\ ~QLess(x1, c.x) /\ ~QLess(x2, c.x)
                  /\ c.y \in {y1, y2} /\ ~QLess(y1, c.y) /\ ~QLess(y2, c.y)
                  /\ c.width = QAbs(QSub(x1, x2))
                  /\ c.height = QAbs(QSub(y1, y2))
                  /\ ( /\ {FirstPoint(el), LastPoint(el)} = {Pt(10, 10), Pt(50, 40)}
                       /\ s = QInt(1) /\ h = 200 )
                     => /\ c.x = QInt(10) /\ c.y = QInt(160)
                        /\ c.width = QInt(40) /\ c.height = QInt(30)]_vars

\* the rectangle dragged from (50,40) back to (10,10) has been exported at
\* scale 1 on the page of height 200
C15_Witness ==
  /\ elements[1].type = "rectangle"
  /\ elements[1].points = <<Pt(50, 40), Pt(10, 10)>>
  /\ \E i \in 1..Len(saved) :
       /\ saved[i].name = "edited"
       /\ saved[i].file.height = 200
       /\ Len(saved[i].commands) = 1
       /\ saved[i].commands[1].x = QInt(10)
       /\ saved[i].commands[1].y = QInt(160)
       /\ saved[i].commands[1].width = QInt(40)
       /\ saved[i].commands[1].height = QInt(30)

(***************************************************************************)
(* C16 (SpecDraw).  A committed text element is exported as one text       *)
(* command at the converted points[0] with size fontSize / scale; "Hi" at  *)
(* (20,30), fontSize 16, scale 2 on a page of height 300 gives x = 10,     *)
(* y = 285, size = 8.                                                      *)
(***************************************************************************)
C16_TextExport ==
  [][\A k \in 1..Len(exports) :
       (ExportsOne(k) /\ exports[k].elements[1].type = "text"
          /\ ~exports[k].elements[1].isEditing) =>
         LET el == exports[k].elements[1]
             s == exports[k].scale
             h == exports[k].file.height
         IN /\ Len(SavedCommands) = 1
            /\ LET c == SavedCommands[1]
               IN /\ c.op = "drawText"
                  /\ c.text = el.text
                  /\ c.x = ExpectedX(FirstPoint(el), s)
                  /\ c.y = ExpectedY(FirstPoint(el), s, h)
                  /\ c.size = ExpectedSize(el.fontSize, s)
                  /\ ( /\ el.text = <<"H", "i">> /\ FirstPoint(el) = Pt(20, 30)
                       /\ el.fontSize = 16 /\ s = QInt(2) /\ h = 300 )
                     => /\ c.x = QInt(10) /\ c.y = QInt(285)
                        /\ c.size = QInt(8)]_vars

\* the text "Hi" at (20,30) with font size 16 has been exported at scale 2
\* on the page of height 300
C16_Witness ==
  /\ elements[1].type = "text"
  /\ elements[1].points = <<Pt(20, 30)>>
  /\ elements[1].fontSize = 16
  /\ \E i \in 1..Len(saved) :
       /\ saved[i].name = "edited"
       /\ saved[i].file.height = 300
       /\ Len(saved[i].commands) = 1
       /\ saved[i].commands[1].text = <<"H", "i">>
       /\ saved[i].commands[1].x = QInt(10)
       /\ saved[i].commands[1].y = QInt(285)
       /\ saved[i].commands[1].size = QInt(8)

(***************************************************************************)
(* C17 (SpecDraw).  A circle is exported with its centre at the converted  *)
(* first point and a radius equal to the distance of its first and last    *)
(* canvas points divided by the scale; (0,0) and (6,8) at scale 2 give the *)
(* radius 5.                                                               *)
(***************************************************************************)
C17_CircleExport ==
  [][\A k \in 1..Len(exports) :
       (ExportsOne(k) /\ exports[k].elements[1].type = "circle"
          /\ Len(exports[k].elements[1].points) >= 2) =>
         LET el == exports[k].elements[1]
             s == exports[k].scale
             h == exports[k].file.height
         IN /\ Len(SavedCommands) = 1
            /\ LET c == SavedCommands[1]
               IN /\ c.op = "drawCircle"
                  /\ c.x = ExpectedX(FirstPoint(el), s)
                  /\ c.y = ExpectedY(FirstPoint(el), s, h)
                  /\ ExpectedDistance(FirstPoint(el), LastPoint(el), s)
                       \in Radii(c)
                  /\ ( /\ {FirstPoint(el), LastPoint(el)} = {Pt(0, 0), Pt(6, 8)}
                       /\ s = QInt(2) )
                     => QInt(5) \in Radii(c)]_vars

(***************************************************************************)
(* C18 (SpecExport).  An export call for a page number the document has no *)
(* page for fails as a whole: it draws no command, saves no output, shows  *)
(* the error, and leaves the element set, the history and the cursor.      *)
(***************************************************************************)
MissingPage(call) == call.pageNumber \notin 1..call.file.numPages

C19_OneExportInFlight == Len(exports) <= 1

(***************************************************************************)
(* C20 (SpecExport).  Export only reads: requesting an export and the      *)
(* settling of an export call, successful or not, leave the element set    *)
(* (every field of every element), the history, the cursor and the source  *)
(* file unchanged.                                                         *)
(***************************************************************************)
C20_ExportOnlyReads ==
  [][(Download \/ ExportFinish) =>
       UNCHANGED <<elements, history, historyIndex, pdfFile>>]_vars

\* an export of a set that holds a text being edited has been saved
C20_Witness ==
  /\ ExistingEditing(elements)
  /\ \E i \in 1..Len(saved) :
       saved[i].name = "edited" /\ saved[i].commands # <<>>

(***************************************************************************)
(* C21 (SpecColor).  Colour parsing accepts exactly the strings made of    *)
(* '#' and six hex digits, for which each channel is the value of its two  *)
(* digits over 255, a number between 0 and 1; for every other string the   *)
(* colour is the fallback red (1, 0, 0).  No command of a saved output     *)
(* carries a channel that is NaN or outside 0..1.                          *)
(***************************************************************************)
IsRRGGBB(str) ==
  Len(str) = 7 /\ str[1] = "#" /\ \A i \in 2..7 : IsHexDigit(str[i])

PairChannel(hi, lo) == Number(Q(16 * HexValue(hi) + HexValue(lo), 255))

ExpectedColor(str) ==
  IF IsRRGGBB(str)
    THEN [r |-> PairChannel(str[2], str[3]), g |-> PairChannel(str[4], str[5]),
          b |-> PairChannel(str[6], str[7])]
    ELSE Red

InUnit(ch) ==
  ~ch.nan /\ ~QLess(ch.q, QInt(0)) /\ ~QLess(QInt(1), ch.q)

C21_ColorParsing ==
  \A i \in 1..Len(saved) : \A j \in 1..Len(saved[i].commands) :
    LET c == saved[i].commands[j]
    IN /\ InUnit(c.rgb.r) /\ InUnit(c.rgb.g) /\ InUnit(c.rgb.b)
       /\ \A k \in 1..Len(elements) :
            "color" \in DOMAIN elements[k] =>
              c.rgb = ExpectedColor(elements[k].color)

(***************************************************************************)
(* C22 (SpecLoad).  A failed document load is terminal: once every load    *)
(* has settled and the file last opened is one whose load failed, no page  *)
(* of any document is presented for annotation, the element set is empty   *)
(* and no gesture is under way, and no export call runs against the file.  *)
(***************************************************************************)
LoadFailed ==
  pdfFile # <<>> /\ pdfFile[1].numPages = 0 /\ loading = <<>>

PagePresented == CanvasMounted /\ pdfDocument # <<>>

C22_FailedLoadTerminal ==
  LoadFailed =>
    /\ ~PagePresented
    /\ elements = <<>> /\ currentElement = <<>>
    /\ \A i \in 1..Len(exports) : exports[i].file # pdfFile[1]

(***************************************************************************)
(* C23 (SpecAdds).  Element ids are unique across the element set at all   *)
(* times: no two elements of the set have the same id.                     *)
(***************************************************************************)
C23_UniqueIds ==
  \A i \in 1..Len(elements) : \A j \in 1..Len(elements) :
    i # j => elements[i].id # elements[j].id

(***************************************************************************)
(* C24 (SpecAdds).  Every rectangle, circle, arrow or highlight of the     *)
(* element set, of a history snapshot or of a scheduled checkpoint has     *)
(* exactly two points, whatever the number of pointer-moves of its         *)
(* gesture.                                                                *)
(***************************************************************************)
TwoPointTypes == {"rectangle", "circle", "arrow", "highlight"}

TwoPoints(els) ==
  \A i \in 1..Len(els) :
    els[i].type \in TwoPointTypes => Len(els[i].points) = 2

C24_ShapesHaveTwoPoints ==
  /\ TwoPoints(elements)
  /\ \A h \in 1..Len(history) : TwoPoints(history[h].elements)
  /\ \A k \in 1..Len(pending) : TwoPoints(pending[k].snap)

(***************************************************************************)
(* C25 (SpecAdds).  A gesture started by a pointer-down is never dropped   *)
(* nor replaced: in every step taken while an element is being drawn,      *)
(* either the same gesture goes on (same id, same anchor) or the element   *)
(* is committed to the set, as its last element, with the points captured. *)
(***************************************************************************)
GestureKept ==
  /\ currentElement' # <<>>
  /\ currentElement'[1].id = currentElement[1].id
  /\ currentElement'[1].points[1] = currentElement[1].points[1]

GestureCommitted ==
  /\ currentElement' = <<>>
  /\ Len(elements') = Len(elements) + 1
  /\ elements'[Len(elements')] = currentElement[1]

C25_GestureCommitted ==
  [][currentElement # <<>> => GestureKept \/ GestureCommitted]_vars

(***************************************************************************)
(* C26 (SpecDraw).  The place and the size at which an element is exported *)
(* depend only on where it was drawn on the page, not on the zoom steps    *)
(* taken since: every command of an export of the element, drawn at zoom   *)
(* 1, is placed at the page abscissa of one of its points at zoom 1, and a *)
(* text is exported at its font size at zoom 1.                            *)
(***************************************************************************)
\* the zoom factor in force when the element of InitDraw was drawn
DrawnScale == QInt(1)

C26_ZoomIndependent ==
  [][\A k \in 1..Len(exports) :
       ExportsOne(k) =>
         LET el == exports[k].elements[1]
         IN \A j \in 1..Len(SavedCommands) :
              LET c == SavedCommands[j]
              IN /\ c.x \in {ExpectedX(el.points[i], DrawnScale) :
                               i \in 1..Len(el.points)}
                 /\ c.op = "drawText" =>
                      c.size = ExpectedSize(el.fontSize, DrawnScale)]_vars

(***************************************************************************)
(* C27 (Spec).  History and working set stay consistent: whenever the      *)
(* history is not empty, no text is being edited and no deferred           *)
(* checkpoint is pending, the element set is the snapshot at the cursor.   *)
(***************************************************************************)
C27_SetMatchesCursor ==
  (history # <<>> /\ EditingTextCount(elements) = 0 /\ pending = <<>>)
    => /\ historyIndex + 1 \in 1..Len(history)
       /\ elements = history[historyIndex + 1].elements

(***************************************************************************)
(* C28 (Spec).  The cursor is a valid position of the history in every     *)
(* reachable state: -1 <= historyIndex <= Len(history) - 1, and            *)
(* historyIndex = -1 exactly when the history is empty.                    *)
(***************************************************************************)
C28_CursorInRange ==
  /\ historyIndex \in -1..(Len(history) - 1)
  /\ historyIndex = -1 <=> history = <<>>

\* two snapshots recorded and the cursor taken back to the first by an undo
C28_Witness ==
  /\ Len(history) >= 2
  /\ historyIndex = 0
  /\ elements = history[1].elements

(***************************************************************************)
(* C29 (SpecLoad).  Once every load has completed, the document shown in   *)
(* the viewer and the page count are those of the file last opened, the    *)
(* file the export reads, whatever the order in which overlapping loads    *)
(* have resolved (for a file last opened that holds a document).           *)
(***************************************************************************)
C29_LastUploadShown ==
  (loading = <<>> /\ pdfFile # <<>> /\ pdfFile[1].numPages > 0)
    => /\ pdfDocument = pdfFile
       /\ totalPages = pdfFile[1].numPages

(***************************************************************************)
(* C30 (SpecLoad).  Whenever a document is loaded (totalPages > 0 and no   *)
(* load in flight), the current page is one of its pages:                  *)
(* 1 <= currentPage <= totalPages.                                         *)
(***************************************************************************)
C30_PageInRange ==
  (totalPages > 0 /\ loading = <<>>) => currentPage \in 1..totalPages

(***************************************************************************)
(* C31 (SpecText).  The exporter and the canvas use the same resolved font *)
(* size for a committed text element: when an export of a set of one       *)
(* committed text element settles, every text command it has saved has the *)
(* size the canvas draws the element with, divided by the scale.           *)
(***************************************************************************)
C31_ExportAsCanvas ==
  [][\A k \in 1..Len(exports) :
       ExportsOne(k) =>
         LET el == exports[k].elements[1]
         IN (el.type = "text" /\ ~el.isEditing) =>
              \A j \in 1..Len(SavedCommands) :
                SavedCommands[j].size
                  = ExpectedSize(CanvasFontSize(el), exports[k].scale)]_vars

(***************************************************************************)
(* C32 (SpecText).  With the select tool, a text element enters edit mode  *)
(* only on a pointer-down that hits the element id of the previous         *)
(* pointer-down less than 300 ms after it.  Any other pointer-down (a      *)
(* single click, a second click 300 ms or more later, a click on another   *)
(* element or after a click elsewhere) leaves the element set unchanged    *)
(* and only records the clock reading and the element id hit, if any.      *)
(***************************************************************************)
\* the ids of the text elements a pointer-down can hit
HitIds ==
  {elements[getTextElementAtPoint(elements, p)].id :
     p \in {q \in Points : getTextElementAtPoint(elements, q) # 0}}

\* the pointer-down of this step is a second one on the element id in time
SecondClickOn(id) ==
  /\ id \in HitIds
  /\ lastClickElement = id
  /\ now' - lastClickTime < DoubleClickMs

Entered ==
  {i \in 1..Len(elements) : ~elements[i].isEditing /\ elements'[i].isEditing}

ResolvedFontSize(el) ==
  IF el.textFormat.fontSize # 0 THEN el.textFormat.fontSize
  ELSE IF el.fontSize # 0 THEN el.fontSize ELSE DefaultFontSize

EnteredAs(el) ==
  [el EXCEPT !.isEditing = TRUE,
             !.points = <<Pt(el.points[1].x + CanvasLeft,
                             el.points[1].y + CanvasTop - ResolvedFontSize(el))>>]

C33_EditEntry ==
  [][(MouseDown /\ Len(elements') = Len(elements) /\ Entered # {}) =>
       /\ \E i \in Entered :
            elements' = [elements EXCEPT ![i] = EnteredAs(elements[i])]
       /\ pending' = pending
       /\ UNCHANGED histVars]_vars

(***************************************************************************)
(* C34 (SpecText).  With the text tool and no edit session open, a         *)
(* pointer-down that hits a committed text element puts an element hit     *)
(* into edit mode and creates no element; a pointer-down that hits none    *)
(* appends exactly one text element with isEditing, the empty text and the *)
(* click's viewport position as its single point.                          *)
(***************************************************************************)
C34_TextToolClick ==
  [][(MouseDown /\ activeTool = "text" /\ ~ExistingEditing(elements)) =>
       LET point == startPoint'[1]
           hits == {i \in 1..Len(elements) : ElementHit(elements[i], point)}
           n == Len(elements)
       IN IF hits # {}
            THEN /\ Len(elements') = n
                 /\ \E i \in hits : elements'[i].isEditing
                                      /\ elements'[i].id = elements[i].id
            ELSE /\ Len(elements') = n + 1
                 /\ SubSeq(elements', 1, n) = elements
                 /\ elements'[n + 1].type = "text"
                 /\ elements'[n + 1].isEditing
                 /\ elements'[n + 1].text = <<>>
                 /\ elements'[n + 1].points
                      = <<Pt(point.x + CanvasLeft, point.y + CanvasTop)>>]_vars

\* a text recorded as committed in the history is edited again, text tool on
C34_Witness ==
  /\ activeTool = "text" /\ isDrawing
  /\ \E i \in 1..Len(elements) :
       /\ elements[i].isEditing /\ elements[i].text # <<>>
       /\ \E h \in 1..Len(history) : \E j \in 1..Len(history[h].elements) :
            /\ history[h].elements[j].id = elements[i].id
            /\ ~history[h].elements[j].isEditing

(***************************************************************************)
(* C35 (SpecDraw).  A highlight is exported as one filled rectangle of     *)
(* opacity 0.3 with x, y the minima of the converted corners, width the    *)
(* absolute horizontal delta, and height the absolute vertical delta, or   *)
(* 20 / scale when the two points have the same y; and the rectangle       *)
(* covers the box of the page that the canvas fills for the element.       *)
(***************************************************************************)
C35_HighlightExport ==
  [][\A k \in 1..Len(exports) :
       (ExportsOne(k) /\ exports[k].elements[1].type = "highlight"
          /\ Len(exports[k].elements[1].points) >= 2) =>
         LET el == exports[k].elements[1]
             s == exports[k].scale
             h == exports[k].file.height
             x1 == ExpectedX(FirstPoint(el), s)
             x2 == ExpectedX(LastPoint(el), s)
             y1 == ExpectedY(FirstPoint(el), s, h)
             y2 == ExpectedY(LastPoint(el), s, h)
             box == CanvasHighlightBox(el)
             corner == Pt(box.x + box.width, box.y + box.height)
         IN /\ Len(SavedCommands) = 1
            /\ LET c == SavedCommands[1]
               IN /\ c.op = "drawRectangle" /\ c.opacity = Q(3, 10)
                  /\ c.x = QMin(x1, x2) /\ c.y = QMin(y1, y2)
                  /\ c.width = QAbs(QSub(x1, x2))
                  /\ c.height = IF y1 # y2 THEN QAbs(QSub(y1, y2))
                                 ELSE ExpectedSize(DefaultHighlightHeight, s)
                  /\ {c.x, QAdd(c.x, c.width)}
                       = {ExpectedX(box, s), ExpectedX(corner, s)}
                  /\ {c.y, QAdd(c.y, c.height)}
                       = {ExpectedY(box, s, h), ExpectedY(corner, s, h)}]_vars

(***************************************************************************)
(* C36 (Spec).  In every reachable state, every committed text element     *)
(* (type text, isEditing FALSE) of the element set has a non-empty text.   *)
(***************************************************************************)
C36_CommittedTextNonEmpty ==
  \A i \in 1..Len(elements) :
    (elements[i].type = "text" /\ ~elements[i].isEditing)
      => elements[i].text # <<>>

(***************************************************************************)
(* C37 (SpecErase).  The eraser is visual-only: no pointer event of an     *)
(* eraser gesture (the pointer-down, the moves of the drag, the pointer-up *)
(* that ends it) creates an element or changes the element set, the        *)
(* history or the cursor, so that an export after erasing issues the draw  *)
(* commands of an export without erasing.                                  *)
(***************************************************************************)
EraserEvent == Erase \/ EraserHover \/ MouseUp

C37_EraserVisualOnly ==
  [][(activeTool = "eraser" /\ EraserEvent) =>
       /\ UNCHANGED <<elements, history, historyIndex>>
       /\ mergePDFWithAnnotations(pdfFile[1], elements', currentPage, scale)
            = mergePDFWithAnnotations(pdfFile[1], elements, currentPage, scale)]_vars

(***************************************************************************)
(* C38 (SpecExport).  Annotations persist across page changes: a           *)
(* previous-page or next-page step changes only currentPage, by one and    *)
(* never to below 1 nor, from a page of the document, to above totalPages, *)
(* and leaves the element set, the history, the cursor and every other     *)
(* part of the state unchanged.                                            *)
(***************************************************************************)
PageTurnFrame ==
  UNCHANGED <<elements, history, historyIndex, pending, editors, activeTool,
              gestureVars, pdfFile, totalPages, scale, viewerVars, outVars>>

C39_SnapshotsImmutable ==
  [][\A i \in 1..Len(heap.history) :
       Deref(heap', heap.history[i].elements)
         = Deref(heap, heap.history[i].elements)]_vars

\* a recorded snapshot lists an element that the set has since replaced by an
\* updated one
C39_Witness ==
  \E i \in 1..Len(heap.history) :
    \E k \in 1..Len(heap.history[i].elements), j \in 1..Len(heap.elements) :
      LET old == heap.objects[heap.history[i].elements[k]]
          new == heap.objects[heap.elements[j]]
      IN old.id = new.id /\ old # new

(***************************************************************************)
(* C40 (Spec).  Undo and redo are inverse steps on the timeline: where     *)
(* undo is possible (cursor > 0), undo followed at once by redo leaves the *)
(* cursor where it was and the element set equal to the snapshot at that   *)
(* cursor; where redo is possible, redo followed at once by undo does the  *)
(* same.  Neither handler writes the snapshot list.                        *)
(***************************************************************************)
UndoThenRedo ==
  LET u == UndoResult(elements, history, historyIndex)
  IN RedoResult(u.elements, history, u.historyIndex)

RedoThenUndo ==
  LET r == RedoResult(elements, history, historyIndex)
  IN UndoResult(r.elements, history, r.historyIndex)

AtCursor == [elements |-> history[historyIndex + 1].elements,
             historyIndex |-> historyIndex]

C40_UndoRedoInverse ==
  /\ canUndo => UndoThenRedo = AtCursor
  /\ canRedo => RedoThenUndo = AtCursor

\* the cursor stands between two snapshots that differ from the one it is on
C40_Witness ==
  /\ canUndo /\ canRedo
  /\ history[historyIndex].elements # history[historyIndex + 1].elements
  /\ history[historyIndex + 2].elements # history[historyIndex + 1].elements

====
